---------------------------- MODULE Spec2Model ----------------------------
(***************************************************************************)
(* SoftDeck: the action dispatch core.                                     *)
(*   - ActionRegistry      (src/src/actions/registry.py)                   *)
(*   - MacroAction         (src/src/actions/macro.py)                      *)
(*   - ActiveWindowMonitor (src/src/services/window_monitor.py)            *)
(*   - InputDetector       (src/src/services/input_detector.py)            *)
(*   - GlobalHotkeyService (src/src/services/global_hotkey.py)             *)
(*   - PageBar, MainWindow (src/src/ui/page_bar.py, main_window.py)        *)
(*   - AppConfig, ConfigManager (src/src/config/models.py, manager.py)     *)
(*   - NavigatePageAction, LaunchAppAction (src/src/actions/)              *)
(* Each component has its own specification over the shared variables:     *)
(* SpecRegistry, SpecMacro (FairSpecMacro), SpecMonitor (FairSpecMonitor), *)
(* SpecHook (FairSpecHook), SpecDetector, SpecHotkey, SpecPages,           *)
(* SpecModels, SpecExecutors, SpecManager.                                 *)
(***************************************************************************)
EXTENDS Integers, Sequences, FiniteSets, TLC

VARIABLES
    actions,    \* ActionRegistry._actions: action type -> executor, or None
    regCall,    \* the last call made on the registry and how it ended
    regCalls,   \* number of registry calls made so far
    lastReg,    \* per action type, the executor of the most recent register call
    tasks,      \* macro tasks (threads running MacroAction._run_steps), in spawn order
    ui,         \* the thread calling MacroAction.execute
    mon,        \* ActiveWindowMonitor: _running, _last_exe, the thread's position
    events,     \* the names carried by the active_app_changed signals emitted so far
    obs,        \* the names the successful polls have observed so far
    monStop,    \* the thread calling ActiveWindowMonitor.stop(): its position
    det,        \* InputDetector: _last_injected, _hook (0 is None), _running, _thread
    hthreads,   \* the hook threads (running InputDetector._run), in start order
    oshooks,    \* the keyboard hooks installed in the OS, named by their thread
    lastDown,   \* the kind of the last key-down a hook procedure was called for
    hookCall,   \* the last call of the hook procedure: its event, what it forwarded
    keyQueue,   \* key presses waiting in the UI thread's event queue
    lastKey,    \* the last key press MainWindow.keyPressEvent handled
    detStop,    \* the UI thread inside InputDetector.stop(): its position
    gh,         \* GlobalHotkeyService: _hotkey, _registered
    oskeys,     \* the keyboard library: registrations per chord
    ghCall,     \* the last call made on the hotkey service
    chordPress, \* the last chord pressed and the triggered signals it caused
    pages,      \* ConfigManager.pages
    saved,      \* the pages in the configuration file
    bar,        \* PageBar._current_index
    win,        \* MainWindow._current_page_index
    shown,      \* the page whose buttons the window's grid shows (none: <<>>)
    saveFailures, \* the saves that failed so far
    pageOp,     \* the last operation on the page bar or the page selection
    modelCall,  \* the last call on the configuration model and its result
    execCall,   \* the last call of an executor and what it did
    fs,         \* the files of the configuration: user's, temporary, bundled
    plug,       \* PluginLoader: the modules found, self.plugins, the calls made so far
    mgr         \* ConfigManager: _config, and its position in load() or save()

vars == <<actions, regCall, regCalls, lastReg, tasks, ui, mon, events, obs, monStop,
          det, hthreads, oshooks, lastDown, hookCall, keyQueue, lastKey, detStop,
          gh, oskeys, ghCall, chordPress, pages, saved, bar, win, shown, saveFailures,
          pageOp, modelCall, execCall, fs, mgr, plug>>

regVars   == <<actions, regCall, regCalls, lastReg>>
macroVars == <<tasks, ui>>
monVars   == <<mon, events, obs, monStop>>
detVars   == <<det, hthreads, oshooks, lastDown, hookCall, keyQueue, lastKey, detStop>>
ghVars    == <<gh, oskeys, ghCall, chordPress>>
pageVars  == <<pages, saved, bar, win, shown, saveFailures, pageOp>>
cfgVars   == <<modelCall, execCall, fs, mgr, plug>>
uiVars    == <<detVars, ghVars, pageVars, cfgVars>>
appVars   == <<regVars, macroVars, monVars, detVars, ghVars, pageVars>>

None == "None"

(***************************************************************************)
(* Bounds of the model.                                                    *)
(***************************************************************************)
MaxRegCalls == 3    \* registry calls per behaviour
MaxTasks    == 2    \* macro invocations with a non-empty step list
MaxPolls    == 4    \* poll iterations of the monitor
MaxHookThreads == 2 \* hook threads started by InputDetector.start
MaxKeyQueue == 1    \* key presses waiting in the UI thread's queue
MaxPages    == 2    \* pages in the configuration
MaxSaveFailures == 1 \* failed writes of the configuration file
MaxPlugins  == 3    \* modules in the plugins directory
MaxModelPages == 2  \* pages of a configuration given to the configuration model

(***************************************************************************)
(* ActionRegistry                                                          *)
(***************************************************************************)
ActionTypes == {"hotkey", "macro", "plugin_x"}
Executors   == {"ex1", "ex2"}

\* What an executor's execute(params) does for the params it is given and the
\* state of the OS: it returns, or it raises an Exception.
ExecBehaviours == {"ok", "raise"}
\* What an executor's get_display_text(params) does: a text, None, or it raises.
TextBehaviours == {"text", "none", "raise"}

NoCall == [op |-> "none", type |-> None, outcome |-> "none", invoked |-> None,
           behaviour |-> "none", value |-> None,
           before |-> [t \in ActionTypes |-> None],
           after |-> [t \in ActionTypes |-> None]]

\* dict.get(action_type): the executor registered for the type, or None
Lookup(acts, t) == acts[t]

RegistryExecuteNoCatch(acts, t, beh) ==
    LET action == Lookup(acts, t) IN
    IF action = None
    THEN [outcome |-> "returned", invoked |-> None, actions |-> acts]
    ELSE [outcome |-> IF beh = "raise" THEN "raised" ELSE "returned",
          invoked |-> action, actions |-> acts]

RegistryExecuteDefaultExecutor(acts, t, beh) ==
    LET action == IF Lookup(acts, t) = None THEN "ex1" ELSE Lookup(acts, t) IN
    [outcome |-> "returned", invoked |-> action, actions |-> acts]

\* ActionRegistry.execute: the outcome seen by the caller, the executor invoked
\* (None when none is) and the mapping after the call.
RegistryExecute(acts, t, beh) ==
    LET action == Lookup(acts, t) IN
    IF action = None
    THEN [outcome |-> "returned", invoked |-> None, actions |-> acts]
    ELSE \* try: action.execute(params)  except Exception: logger.exception(...)
         [outcome |-> "returned", invoked |-> action, actions |-> acts]

\* ActionRegistry.get_display_text: outcome, executor invoked, value returned.
RegistryGetDisplayText(acts, t, beh) ==
    LET action == Lookup(acts, t) IN
    IF action = None
    THEN [outcome |-> "returned", invoked |-> None, value |-> None]
    ELSE \* try: return action.get_display_text(params)  except Exception: return None
         [outcome |-> "returned", invoked |-> action,
          value |-> IF beh = "text" THEN "text" ELSE None]

RegisterFirstWins(t, e) ==
    /\ actions' = IF actions[t] = None THEN [actions EXCEPT ![t] = e] ELSE actions
    /\ lastReg' = [lastReg EXCEPT ![t] = e]
    /\ UNCHANGED <<regCall, regCalls>>
    /\ UNCHANGED <<macroVars, monVars, uiVars>>

\* ActionRegistry.register
Register(t, e) ==
    /\ actions' = [actions EXCEPT ![t] = e]
    /\ lastReg' = [lastReg EXCEPT ![t] = e]
    /\ UNCHANGED <<regCall, regCalls>>
    /\ UNCHANGED <<macroVars, monVars, uiVars>>

Execute(t, beh) ==
    /\ regCalls < MaxRegCalls
    /\ LET r == RegistryExecute(actions, t, beh) IN
        /\ actions' = r.actions
        /\ regCall' = [op |-> "execute", type |-> t, outcome |-> r.outcome,
                       invoked |-> r.invoked,
                       behaviour |-> IF r.invoked = None THEN "none" ELSE beh,
                       value |-> None, before |-> actions, after |-> r.actions]
    /\ regCalls' = regCalls + 1
    /\ UNCHANGED lastReg
    /\ UNCHANGED <<macroVars, monVars, uiVars>>

GetDisplayText(t, beh) ==
    /\ regCalls < MaxRegCalls
    /\ LET r == RegistryGetDisplayText(actions, t, beh) IN
        /\ regCall' = [op |-> "get_display_text", type |-> t, outcome |-> r.outcome,
                       invoked |-> r.invoked,
                       behaviour |-> IF r.invoked = None THEN "none" ELSE beh,
                       value |-> r.value, before |-> actions, after |-> actions]
    /\ regCalls' = regCalls + 1
    /\ UNCHANGED <<actions, lastReg>>
    /\ UNCHANGED <<macroVars, monVars, uiVars>>

InitRegistry ==
    /\ actions = [t \in ActionTypes |-> None]
    /\ lastReg = [t \in ActionTypes |-> None]
    /\ regCall = NoCall
    /\ regCalls = 0

NextRegistry ==
    \/ \E t \in ActionTypes, e \in Executors : Register(t, e)
    \/ \E t \in ActionTypes, beh \in ExecBehaviours : Execute(t, beh)
    \/ \E t \in ActionTypes, beh \in TextBehaviours : GetDisplayText(t, beh)

(***************************************************************************)
(* MacroAction                                                             *)
(***************************************************************************)
\* A step of params["steps"]: {"type": ..., "params": {...}}.  A key that is
\* absent from the step's params reads as the default .get gives it: "" for
\* keys and text, False for use_clipboard; has_ms tells whether "ms" is there.
Step(type, keys, text, clip, hasMs, ms) ==
    [type |-> type, keys |-> keys, text |-> text, use_clipboard |-> clip,
     has_ms |-> hasMs, ms |-> ms]
Hotkey(keys)          == Step("hotkey", keys, "", FALSE, FALSE, 0)
TextInput(text, clip) == Step("text_input", "", text, clip, FALSE, 0)
Delay(ms)             == Step("delay", "", "", FALSE, TRUE, ms)
DelayDefault          == Step("delay", "", "", FALSE, FALSE, 0)
OtherStep(type)       == Step(type, "", "", FALSE, FALSE, 0)

\* The step lists the buttons of the configuration carry.
MacroLibrary ==
    { <<Delay(50), Hotkey("ctrl+a"), DelayDefault, Hotkey("ctrl+b")>>,
      <<Hotkey("bad"), TextInput("ok", FALSE)>>,
      <<OtherStep("bogus"), Delay(-50), Hotkey("")>>,
      <<TextInput("hi", TRUE)>> }

DefaultDelayMs == 100

\* What one iteration of the loop of _run_steps asks of the OS for a step.
StepPlan(step) ==
    IF step.type = "hotkey"
    THEN IF step.keys # ""
         THEN [op |-> "send", arg |-> step.keys, ms |-> 0]
         ELSE [op |-> "none", arg |-> "", ms |-> 0]
    ELSE IF step.type = "text_input"
    THEN IF step.text # ""
         THEN IF step.use_clipboard
              THEN [op |-> "paste", arg |-> step.text, ms |-> 0]
              ELSE [op |-> "write", arg |-> step.text, ms |-> 0]
         ELSE [op |-> "none", arg |-> "", ms |-> 0]
    ELSE IF step.type = "delay"
    THEN [op |-> "sleep", arg |-> "",
          ms |-> IF step.has_ms THEN step.ms ELSE DefaultDelayMs]
    ELSE [op |-> "unknown", arg |-> step.type, ms |-> 0]

\* The chords the keyboard library rejects (keyboard.send raises ValueError
\* for a key name it cannot map).
FailingKeys == {"bad"}

\* How the OS call of a plan can end.  keyboard.send raises for a chord it
\* cannot map and otherwise returns; the clipboard calls of a paste return, or
\* raise when the clipboard cannot be opened; time.sleep raises ValueError
\* for a negative length and otherwise returns; an unknown type is logged.
PlanOutcomes(plan) ==
    IF plan.op = "send" THEN (IF plan.arg \in FailingKeys THEN {"raised"} ELSE {"ok"})
    ELSE IF plan.op = "paste" THEN {"ok", "raised"}
    ELSE IF plan.op = "sleep" THEN (IF plan.ms < 0 THEN {"raised"} ELSE {"ok"})
    ELSE IF plan.op = "unknown" THEN {"unknown"}
    ELSE {"ok"}

SleepWholeSeconds(ms) == (ms \div 1000) * 1000

\* time.sleep(ms / 1000): the time the thread is suspended, in milliseconds
SleepLength(ms) == ms

AbortOnFailure(len, i, outcome) ==
    IF outcome \in {"raised", "unknown"} \/ i + 1 > len
    THEN [i |-> i + 1, pc |-> "done"]
    ELSE [i |-> i + 1, pc |-> "fetch"]

ReturnAfterFirstStep(len, i, outcome) == [i |-> i + 1, pc |-> "done"]

\* Where the loop of _run_steps goes after step i (1-based) of len steps ended
\* with outcome: the except clause swallows a failure, so always to the next
\* step, and the thread ends after the last.
AfterStep(len, i, outcome) ==
    IF i + 1 > len THEN [i |-> i + 1, pc |-> "done"]
    ELSE [i |-> i + 1, pc |-> "fetch"]

\* threading.Thread(target=self._run_steps, args=(steps,), daemon=True):
\* the thread's own step list and cursor; slept is the time the thread has
\* spent suspended in time.sleep so far, remaining what is left of the
\* current sleep.
NewTask(steps) ==
    [steps |-> steps, i |-> 1, pc |-> "new", remaining |-> 0, slept |-> 0,
     log |-> <<>>]

StartJoinsThread(task) == task.pc = "done"

\* Thread.start() returns to its caller once the new thread has begun to run.
ThreadStartReturns(task) == task.pc # "new"

SpawnOnlyWhenIdle(ts) == \A k \in 1..Len(ts) : ts[k].pc = "done"

\* MacroAction.execute starts a thread for every call that has steps.
SpawnsThread(ts) == TRUE

\* The number of steps a task has completed.
Ended(task) == Cardinality({k \in 1..Len(task.log) : task.log[k].ev = "end"})

\* MacroAction.execute, up to Thread.start()
MacroExecute(steps) ==
    /\ ui.pc = "idle"
    /\ \/ /\ steps = <<>>
          /\ ui' = [ui EXCEPT !.last = "noop", !.task = 0, !.stepEndedBeforeReturn = FALSE]
          /\ UNCHANGED tasks
       \/ /\ steps # <<>>
          /\ ui.calls < MaxTasks
          /\ IF SpawnsThread(tasks)
             THEN /\ tasks' = Append(tasks, NewTask(steps))
                  /\ ui' = [pc |-> "starting", task |-> Len(tasks) + 1,
                            calls |-> ui.calls + 1, last |-> "spawned",
                            stepEndedBeforeReturn |-> FALSE]
             ELSE /\ ui' = [ui EXCEPT !.calls = ui.calls + 1, !.last = "noop",
                                      !.task = 0, !.stepEndedBeforeReturn = FALSE]
                  /\ UNCHANGED tasks
    /\ UNCHANGED <<regVars, monVars, uiVars>>

\* The new thread begins to run (Thread._bootstrap sets the started event).
TaskBootstrap(t) ==
    /\ tasks[t].pc = "new"
    /\ tasks' = [tasks EXCEPT ![t].pc = "fetch"]
    /\ UNCHANGED ui
    /\ UNCHANGED <<regVars, monVars, uiVars>>

\* Thread.start() returns and with it MacroAction.execute.
ExecuteReturn ==
    /\ ui.pc = "starting"
    /\ ThreadStartReturns(tasks[ui.task])
    /\ ui' = [ui EXCEPT !.pc = "idle", !.stepEndedBeforeReturn = Ended(tasks[ui.task]) > 0]
    /\ UNCHANGED tasks
    /\ UNCHANGED <<regVars, monVars, uiVars>>

\* _run_steps: the loop takes step i and enters its OS call.
StepBegin(t) ==
    /\ tasks[t].pc = "fetch"
    /\ LET task == tasks[t]
           plan == StepPlan(task.steps[task.i]) IN
        tasks' = [tasks EXCEPT
            ![t].pc = "in_step",
            ![t].remaining = IF plan.op = "sleep" /\ plan.ms >= 0
                             THEN SleepLength(plan.ms) ELSE 0,
            ![t].log = Append(task.log,
                [ev |-> "begin", i |-> task.i, outcome |-> "-", slept |-> task.slept,
                 op |-> plan.op, arg |-> plan.arg])]
    /\ UNCHANGED ui
    /\ UNCHANGED <<regVars, monVars, uiVars>>

\* _run_steps: the OS call of step i returns or raises; the loop goes on.
StepEnd(t, outcome) ==
    /\ tasks[t].pc = "in_step"
    /\ LET task == tasks[t]
           plan == StepPlan(task.steps[task.i])
           nxt  == AfterStep(Len(task.steps), task.i, outcome) IN
        /\ outcome \in PlanOutcomes(plan)
        /\ task.remaining = 0
        /\ tasks' = [tasks EXCEPT
            ![t].pc = nxt.pc,
            ![t].i = nxt.i,
            ![t].log = Append(task.log,
                [ev |-> "end", i |-> task.i, outcome |-> outcome, slept |-> task.slept,
                 op |-> plan.op, arg |-> plan.arg])]
    /\ UNCHANGED ui
    /\ UNCHANGED <<regVars, monVars, uiVars>>

Sleeping(task) == task.pc = "in_step" /\ task.remaining > 0

\* 50 ms pass: every sleeping thread has slept 50 ms more.  Time that passes
\* while no thread sleeps is seen by none and is left out.
Tick ==
    /\ \E t \in 1..Len(tasks) : Sleeping(tasks[t])
    /\ tasks' = [t \in 1..Len(tasks) |->
                    IF Sleeping(tasks[t])
                    THEN [tasks[t] EXCEPT
                            !.slept = @ + 50,
                            !.remaining = IF @ > 50 THEN @ - 50 ELSE 0]
                    ELSE tasks[t]]
    /\ UNCHANGED ui
    /\ UNCHANGED <<regVars, monVars, uiVars>>

InitMacro ==
    /\ tasks = <<>>
    /\ ui = [pc |-> "idle", task |-> 0, calls |-> 0, last |-> "none",
             stepEndedBeforeReturn |-> FALSE]

TaskStep(t) ==
    \/ TaskBootstrap(t)
    \/ StepBegin(t)
    \/ \E o \in {"ok", "raised", "unknown"} : StepEnd(t, o)

NextMacro ==
    \/ \E steps \in MacroLibrary \cup {<<>>} : MacroExecute(steps)
    \/ ExecuteReturn
    \/ \E t \in 1..Len(tasks) : TaskBootstrap(t)
    \/ \E t \in 1..Len(tasks) : StepBegin(t)
    \/ \E t \in 1..Len(tasks), o \in {"ok", "raised", "unknown"} : StepEnd(t, o)
    \/ Tick

(***************************************************************************)
(* ActiveWindowMonitor                                                     *)
(***************************************************************************)
ExeNames == {"a.exe", "b.exe"}

\* What one poll iteration can meet: no foreground window (hwnd = 0), the
\* foreground window is the monitor's own process, psutil raises
\* NoSuchProcess or AccessDenied, any other call raises, or the name is read.
PollFailures == {"NoSuchProcess", "AccessDenied", "Exception"}
PollSkips    == {"no_window", "own_pid"}
PollResults  ==
    [kind : PollFailures \cup PollSkips, name : {""}] \cup [kind : {"name"}, name : ExeNames]

EmitAlways(last, res) == [last_exe |-> last, emit |-> res.kind = "name"]

PollEffectForgetsOnSkip(last, res) ==
    IF res.kind = "name"
    THEN [last_exe |-> res.name, emit |-> res.name # last]
    ELSE [last_exe |-> "", emit |-> FALSE]

\* The try block of run for one poll result: _last_exe afterwards and whether
\* active_app_changed is emitted (with res.name).
PollEffect(last, res) ==
    IF res.kind = "name" /\ res.name # last
    THEN [last_exe |-> res.name, emit |-> TRUE]
    ELSE [last_exe |-> last, emit |-> FALSE]

DieOnError(res) == IF res.kind \in PollFailures THEN "exited" ELSE "sleep"

\* Where the thread goes after the try block: both except clauses pass, so
\* always on to msleep.
AfterPoll(res) == "sleep"

LoopForever(running) == TRUE

\* while self._running
LoopContinues(running) == running

MonitorStartSetsRunning ==
    /\ mon.pc \in {"notstarted", "exited"}
    /\ mon' = [mon EXCEPT !.pc = "check", !.running = TRUE]
    /\ UNCHANGED <<events, obs, monStop>>
    /\ UNCHANGED <<regVars, macroVars, uiVars>>

\* QThread.start(): begins run() unless the thread is running
MonitorStart ==
    /\ mon.pc \in {"notstarted", "exited"}
    /\ mon' = [mon EXCEPT !.pc = "check"]
    /\ UNCHANGED <<events, obs, monStop>>
    /\ UNCHANGED <<regVars, macroVars, uiVars>>

\* run: the loop condition
LoopCheck ==
    /\ mon.pc = "check"
    /\ IF LoopContinues(mon.running)
       THEN /\ mon.polls < MaxPolls
            /\ mon' = [mon EXCEPT !.pc = "poll"]
       ELSE mon' = [mon EXCEPT !.pc = "exited"]
    /\ UNCHANGED <<events, obs, monStop>>
    /\ UNCHANGED <<regVars, macroVars, uiVars>>

\* run: the body of the loop up to msleep
Poll(res) ==
    /\ mon.pc = "poll"
    /\ LET e == PollEffect(mon.last_exe, res) IN
        /\ mon' = [mon EXCEPT !.pc = AfterPoll(res), !.last_exe = e.last_exe,
                              !.polls = mon.polls + 1, !.lastPoll = res.kind]
        /\ events' = IF e.emit THEN Append(events, res.name) ELSE events
        /\ obs' = IF res.kind = "name" THEN Append(obs, res.name) ELSE obs
    /\ UNCHANGED monStop
    /\ UNCHANGED <<regVars, macroVars, uiVars>>

\* run: msleep(interval) returns
SleepDone ==
    /\ mon.pc = "sleep"
    /\ mon' = [mon EXCEPT !.pc = "check"]
    /\ UNCHANGED <<events, obs, monStop>>
    /\ UNCHANGED <<regVars, macroVars, uiVars>>

\* stop: clears the flag, quit(), and enters wait(3000)
MonitorStop ==
    /\ monStop.pc = "idle"
    /\ mon' = [mon EXCEPT !.running = FALSE]
    /\ monStop' = [pc |-> "waiting", last |-> "none"]
    /\ UNCHANGED <<events, obs>>
    /\ UNCHANGED <<regVars, macroVars, uiVars>>

\* stop: wait(3000) returns, the thread having finished or the time being up
MonitorStopReturn ==
    /\ monStop.pc = "waiting"
    /\ \E r \in {"finished", "timeout"} :
        /\ r = "finished" => mon.pc \in {"notstarted", "exited"}
        /\ r = "timeout" => mon.pc \notin {"notstarted", "exited"}
        /\ monStop' = [monStop EXCEPT !.pc = "idle", !.last = r]
    /\ UNCHANGED <<mon, events, obs>>
    /\ UNCHANGED <<regVars, macroVars, uiVars>>

InitMonitor ==
    /\ mon = [running |-> TRUE, last_exe |-> "", pc |-> "notstarted", polls |-> 0,
              lastPoll |-> "none"]
    /\ events = <<>>
    /\ obs = <<>>
    /\ monStop = [pc |-> "idle", last |-> "none"]

MonitorThread ==
    \/ LoopCheck
    \/ \E res \in PollResults : Poll(res)
    \/ SleepDone

NextMonitor ==
    \/ MonitorStart
    \/ MonitorThread
    \/ MonitorStop
    \/ MonitorStopReturn

(***************************************************************************)
(* InputDetector and MainWindow.keyPressEvent                              *)
(*                                                                         *)
(* start(), stop() and keyPressEvent run on the UI thread; _run and         *)
(* _hook_proc run on a hook thread.  The OS calls the procedure of an       *)
(* installed low-level hook on the thread that installed it, while that    *)
(* thread waits in GetMessageW, before it delivers the key event to the     *)
(* focused window.  A thread has a message queue from its first call into   *)
(* user32 (SetWindowsHookExW); PostThreadMessageW to a thread without one   *)
(* fails.  The hooks of a thread that ends are freed by the OS.             *)
(***************************************************************************)
LLKHF_INJECTED == 16
WM_KEYDOWN     == 256
WM_SYSKEYDOWN  == 260

\* The key events the OS produces: hook code, message, KBDLLHOOKSTRUCT.flags,
\* whether the event was synthesized by software, and what the next hook in
\* the chain answers to CallNextHookEx (non-zero: the event is to be dropped).
KeyEvents ==
    << [nCode |-> 0,  wParam |-> WM_KEYDOWN,    flags |-> 0,   injected |-> FALSE, next |-> 0],
       [nCode |-> 0,  wParam |-> WM_KEYDOWN,    flags |-> 16,  injected |-> TRUE,  next |-> 0],
       [nCode |-> 0,  wParam |-> 257,           flags |-> 128, injected |-> FALSE, next |-> 1],
       [nCode |-> 0,  wParam |-> WM_SYSKEYDOWN, flags |-> 48,  injected |-> TRUE,  next |-> 0],
       [nCode |-> -1, wParam |-> WM_KEYDOWN,    flags |-> 16,  injected |-> TRUE,  next |-> 0],
       [nCode |-> 0,  wParam |-> WM_KEYDOWN,    flags |-> 1,   injected |-> FALSE, next |-> 1] >>

\* bool(flags & mask), for a mask of one bit
BitAnd(flags, mask) == (flags \div mask) % 2 = 1

HookArgs(ev) == <<ev.nCode, ev.wParam, ev.flags>>

\* What an event is to the hook procedure
EventKind(ev) ==
    IF ev.nCode < 0 THEN "negative"
    ELSE IF ev.wParam \in {WM_KEYDOWN, WM_SYSKEYDOWN} THEN "down" ELSE "up"

\* A key-down the hook procedure records
IsKeyDown(ev) == ev.nCode >= 0 /\ ev.wParam \in {WM_KEYDOWN, WM_SYSKEYDOWN}

HookProcKeyDownOnly(last, ev) ==
    [last      |-> IF ev.nCode >= 0 /\ ev.wParam = WM_KEYDOWN
                   THEN BitAnd(ev.flags, LLKHF_INJECTED) ELSE last,
     forwarded |-> HookArgs(ev),
     ret       |-> ev.next]

HookProcSuppressInjected(last, ev) ==
    IF ev.nCode >= 0 /\ ev.wParam \in {WM_KEYDOWN, WM_SYSKEYDOWN}
    THEN [last      |-> BitAnd(ev.flags, LLKHF_INJECTED),
          forwarded |-> IF BitAnd(ev.flags, LLKHF_INJECTED) THEN <<>> ELSE HookArgs(ev),
          ret       |-> IF BitAnd(ev.flags, LLKHF_INJECTED) THEN 1 ELSE ev.next]
    ELSE [last |-> last, forwarded |-> HookArgs(ev), ret |-> ev.next]

\* InputDetector._hook_proc: the new _last_injected, the arguments handed to
\* CallNextHookEx and the value returned to the OS
HookProc(last, ev) ==
    [last      |-> IF ev.nCode >= 0 /\ ev.wParam \in {WM_KEYDOWN, WM_SYSKEYDOWN}
                   THEN BitAnd(ev.flags, LLKHF_INJECTED) ELSE last,
     forwarded |-> HookArgs(ev),
     ret       |-> ev.next]

\* MainWindow.keyPressEvent for a key mapped to an existing button, not an
\* auto-repeat: ignored when the detector says the last key was injected,
\* else the button is clicked.
KeyPressEvent(hasDetector, lastInjected) ==
    IF hasDetector /\ lastInjected THEN "ignored" ELSE "click"

NewHookThread == [pc |-> "new", quit |-> FALSE]

\* threading.Thread.is_alive()
Alive(th) == th.pc \notin {"done", "failed"}

\* The thread has called into user32, so it has a message queue
HasQueue(th) == th.pc # "new"

\* The hook threads that serve their hook: installed, and waiting in GetMessageW
Serving == {t \in 1..Len(hthreads) : t \in oshooks /\ hthreads[t].pc = "getmsg"}

StartProceedsAlways(running) == TRUE

\* InputDetector.start: `if self._running: return`
StartProceeds(running) == ~running

\* InputDetector.start
DetStart ==
    /\ detStop.pc = "idle"
    /\ IF StartProceeds(det.running)
       THEN /\ Len(hthreads) < MaxHookThreads
            /\ hthreads' = Append(hthreads, NewHookThread)
            /\ det' = [det EXCEPT !.running = TRUE, !.thread = Len(hthreads) + 1]
       ELSE UNCHANGED <<det, hthreads>>
    /\ UNCHANGED <<oshooks, lastDown, hookCall, keyQueue, lastKey, detStop>>
    /\ UNCHANGED <<regVars, macroVars, monVars, ghVars, pageVars, cfgVars>>

\* InputDetector.stop up to the join: clears the flag and posts WM_QUIT to the
\* thread, which arrives when the thread has a message queue.
DetStop ==
    /\ detStop.pc = "idle"
    /\ det' = [det EXCEPT !.running = FALSE]
    /\ IF det.thread # 0 /\ Alive(hthreads[det.thread])
       THEN /\ hthreads' = [hthreads EXCEPT
                   ![det.thread].quit = @ \/ HasQueue(hthreads[det.thread])]
            /\ detStop' = [pc |-> "join"]
       ELSE /\ UNCHANGED hthreads
            /\ detStop' = [pc |-> "idle"]
    /\ UNCHANGED <<oshooks, lastDown, hookCall, keyQueue, lastKey>>
    /\ UNCHANGED <<regVars, macroVars, monVars, ghVars, pageVars, cfgVars>>

\* self._thread.join(timeout=2) returns: the thread has ended, or 2 s passed
DetStopReturn ==
    /\ detStop.pc = "join"
    /\ detStop' = [pc |-> "idle"]
    /\ UNCHANGED <<det, hthreads, oshooks, lastDown, hookCall, keyQueue, lastKey>>
    /\ UNCHANGED <<regVars, macroVars, monVars, ghVars, pageVars, cfgVars>>

\* _run: SetWindowsHookExW and `if not self._hook: return`
HookInstall(t, ok) ==
    /\ t \in 1..Len(hthreads)
    /\ hthreads[t].pc = "new"
    /\ IF ok
       THEN /\ oshooks' = oshooks \cup {t}
            /\ det' = [det EXCEPT !.hook = t]
            /\ hthreads' = [hthreads EXCEPT ![t].pc = "check"]
       ELSE /\ UNCHANGED oshooks
            /\ det' = [det EXCEPT !.hook = 0]
            /\ hthreads' = [hthreads EXCEPT ![t].pc = "failed"]
    /\ UNCHANGED <<lastDown, hookCall, keyQueue, lastKey, detStop>>
    /\ UNCHANGED <<regVars, macroVars, monVars, ghVars, pageVars, cfgVars>>

\* _run: `while self._running`, then the call of GetMessageW
HookLoopCheck(t) ==
    /\ t \in 1..Len(hthreads)
    /\ hthreads[t].pc = "check"
    /\ hthreads' = [hthreads EXCEPT ![t].pc = IF det.running THEN "getmsg" ELSE "unhook"]
    /\ UNCHANGED <<det, oshooks, lastDown, hookCall, keyQueue, lastKey, detStop>>
    /\ UNCHANGED <<regVars, macroVars, monVars, ghVars, pageVars, cfgVars>>

\* _run: GetMessageW finds WM_QUIT and returns 0: `if ret <= 0: break`
GetMessageReturns(t) ==
    /\ t \in 1..Len(hthreads)
    /\ hthreads[t].pc = "getmsg"
    /\ hthreads[t].quit
    /\ hthreads' = [hthreads EXCEPT ![t].pc = "unhook"]
    /\ UNCHANGED <<det, oshooks, lastDown, hookCall, keyQueue, lastKey, detStop>>
    /\ UNCHANGED <<regVars, macroVars, monVars, ghVars, pageVars, cfgVars>>

\* _run: UnhookWindowsHookEx(self._hook); self._hook = None; the thread ends
Unhook(t) ==
    /\ t \in 1..Len(hthreads)
    /\ hthreads[t].pc = "unhook"
    /\ oshooks' = (oshooks \ {det.hook}) \ {t}
    /\ det' = [det EXCEPT !.hook = 0]
    /\ hthreads' = [hthreads EXCEPT ![t].pc = "done"]
    /\ UNCHANGED <<lastDown, hookCall, keyQueue, lastKey, detStop>>
    /\ UNCHANGED <<regVars, macroVars, monVars, ghVars, pageVars, cfgVars>>

\* The key press the panel receives for a key-down: of the hardware, or
\* synthesized by software, and then whether a hook procedure was called for it
KeyPressOf(ev, seen) ==
    IF ~ev.injected THEN "physical"
    ELSE IF seen THEN "injected, seen by the hook" ELSE "injected"

\* The OS produces a key event: the serving hooks' procedure runs, then the
\* event, unless suppressed, reaches the panel when it has the focus.
KeyEvent(i, focused) ==
    LET ev   == KeyEvents[i]
        seen == Serving # {}
        r    == HookProc(det.last_injected, ev)
    IN  /\ det' = IF seen THEN [det EXCEPT !.last_injected = r.last] ELSE det
        /\ hookCall' = IF seen
                       THEN [kind |-> EventKind(ev), forwardedSame |-> r.forwarded = HookArgs(ev),
                             returnedNext |-> r.ret = ev.next]
                       ELSE hookCall
        /\ lastDown' = IF seen /\ IsKeyDown(ev)
                       THEN (IF ev.injected THEN "injected" ELSE "physical")
                       ELSE lastDown
        /\ focused => IsKeyDown(ev) /\ Len(keyQueue) < MaxKeyQueue
        /\ keyQueue' = IF focused /\ IsKeyDown(ev) /\ (seen => r.ret = 0)
                       THEN Append(keyQueue, KeyPressOf(ev, seen))
                       ELSE keyQueue
        /\ UNCHANGED <<hthreads, oshooks, lastKey, detStop>>
        /\ UNCHANGED <<regVars, macroVars, monVars, ghVars, pageVars, cfgVars>>

\* The UI thread handles the next key press of its queue
KeyPress ==
    /\ detStop.pc = "idle"
    /\ keyQueue # <<>>
    /\ lastKey' = [key |-> Head(keyQueue),
                   result |-> KeyPressEvent(TRUE, det.last_injected)]
    /\ keyQueue' = Tail(keyQueue)
    /\ UNCHANGED <<det, hthreads, oshooks, lastDown, hookCall, detStop>>
    /\ UNCHANGED <<regVars, macroVars, monVars, ghVars, pageVars, cfgVars>>

InitDetector ==
    /\ det = [last_injected |-> FALSE, hook |-> 0, running |-> FALSE,
              thread |-> 0]
    /\ hthreads = <<>>
    /\ oshooks = {}
    /\ lastDown = "none"
    /\ hookCall = [kind |-> "none", forwardedSame |-> TRUE, returnedNext |-> TRUE]
    /\ keyQueue = <<>>
    /\ lastKey = [key |-> "none", result |-> "none"]
    /\ detStop = [pc |-> "idle"]

HookThreadStep(t) ==
    \/ HookInstall(t, TRUE)
    \/ HookInstall(t, FALSE)
    \/ HookLoopCheck(t)
    \/ GetMessageReturns(t)
    \/ Unhook(t)

\* The detector and the OS, the panel not having the focus
NextHook ==
    \/ DetStart
    \/ DetStop
    \/ DetStopReturn
    \/ \E t \in 1..MaxHookThreads, ok \in BOOLEAN : HookInstall(t, ok)
    \/ \E t \in 1..MaxHookThreads : HookLoopCheck(t)
    \/ \E t \in 1..MaxHookThreads : GetMessageReturns(t)
    \/ \E t \in 1..MaxHookThreads : Unhook(t)
    \/ \E i \in 1..Len(KeyEvents) : KeyEvent(i, FALSE)

\* The detector, the OS and the panel's handling of key presses
NextDetector ==
    \/ DetStart
    \/ DetStop
    \/ DetStopReturn
    \/ \E t \in 1..MaxHookThreads, ok \in BOOLEAN : HookInstall(t, ok)
    \/ \E t \in 1..MaxHookThreads : HookLoopCheck(t)
    \/ \E t \in 1..MaxHookThreads : GetMessageReturns(t)
    \/ \E t \in 1..MaxHookThreads : Unhook(t)
    \/ \E i \in 1..Len(KeyEvents), f \in BOOLEAN : KeyEvent(i, f)
    \/ KeyPress

(***************************************************************************)
(* GlobalHotkeyService                                                     *)
(*                                                                         *)
(* The keyboard library keeps the registered hotkeys.  add_hotkey raises   *)
(* for a chord it cannot parse; remove_hotkey raises for a chord that is   *)
(* not registered.  Other code of the process can clear the library's      *)
(* hotkeys.                                                                *)
(***************************************************************************)
\* "ctrl+grave" stands for the default chord, ctrl and the backquote key
Chords        == {"ctrl+grave", "ctrl+1", "alt+f1", "bad"}
InvalidChords == {"bad"}

NoKeys == [c \in Chords |-> 0]

\* keyboard.add_hotkey(chord, callback, suppress=True)
KeyboardAdd(keys, chord) ==
    IF chord \in InvalidChords
    THEN [keys |-> keys, raised |-> TRUE]
    ELSE [keys |-> [keys EXCEPT ![chord] = @ + 1], raised |-> FALSE]

\* keyboard.remove_hotkey(chord)
KeyboardRemove(keys, chord) ==
    IF keys[chord] = 0
    THEN [keys |-> keys, raised |-> TRUE]
    ELSE [keys |-> [keys EXCEPT ![chord] = @ - 1], raised |-> FALSE]

HotkeyStartUnguarded(s) ==
    LET r == KeyboardAdd(s.keys, s.hotkey) IN
    [s EXCEPT !.keys = r.keys, !.registered = ~r.raised, !.osCalls = @ + 1]

\* GlobalHotkeyService.start, on s = the service's fields, the library's
\* hotkeys and the number of calls made to the library
HotkeyStart(s) ==
    IF s.registered
    THEN s
    ELSE LET r == KeyboardAdd(s.keys, s.hotkey) IN
         [s EXCEPT !.keys = r.keys, !.registered = ~r.raised, !.osCalls = @ + 1]

HotkeyStopKeepsChord(s) ==
    IF ~s.registered THEN s ELSE [s EXCEPT !.registered = FALSE]

\* GlobalHotkeyService.stop: a failure of remove_hotkey is swallowed
HotkeyStop(s) ==
    IF ~s.registered
    THEN s
    ELSE LET r == KeyboardRemove(s.keys, s.hotkey) IN
         [s EXCEPT !.keys = r.keys, !.registered = FALSE, !.osCalls = @ + 1,
                   !.swallowed = r.raised]

HotkeyUpdateOnlyWhenRegistered(s, new) ==
    IF s.registered
    THEN HotkeyStart([HotkeyStop(s) EXCEPT !.hotkey = new])
    ELSE [s EXCEPT !.hotkey = new]

\* GlobalHotkeyService.update_hotkey
HotkeyUpdate(s, new) == HotkeyStart([HotkeyStop(s) EXCEPT !.hotkey = new])

HotkeyState ==
    [hotkey |-> gh.hotkey, registered |-> gh.registered, keys |-> oskeys,
     osCalls |-> 0, swallowed |-> FALSE]

HotkeyCall(op, s) ==
    /\ gh' = [hotkey |-> s.hotkey, registered |-> s.registered]
    /\ oskeys' = s.keys
    /\ ghCall' = [op |-> op, prev |-> gh.hotkey, wasRegistered |-> gh.registered,
                  osCalls |-> s.osCalls, swallowed |-> s.swallowed,
                  unchanged |-> (gh' = gh /\ oskeys' = oskeys)]
    /\ UNCHANGED chordPress
    /\ UNCHANGED <<regVars, macroVars, monVars, detVars, pageVars, cfgVars>>

GhStart == HotkeyCall("start", HotkeyStart(HotkeyState))

GhStop == HotkeyCall("stop", HotkeyStop(HotkeyState))

GhUpdate(new) == HotkeyCall("update", HotkeyUpdate(HotkeyState, new))

\* Other code of the process clears the hotkeys of the keyboard library
HotkeysCleared ==
    /\ oskeys # NoKeys
    /\ oskeys' = NoKeys
    /\ UNCHANGED <<gh, ghCall, chordPress>>
    /\ UNCHANGED <<regVars, macroVars, monVars, detVars, pageVars, cfgVars>>

\* The user presses a chord: the library calls _on_hotkey once per
\* registration of the chord, and each call emits `triggered`
ChordPressed(c) ==
    /\ chordPress' = [chord |-> c, triggered |-> oskeys[c]]
    /\ UNCHANGED <<gh, oskeys, ghCall>>
    /\ UNCHANGED <<regVars, macroVars, monVars, detVars, pageVars, cfgVars>>

InitHotkey ==
    /\ chordPress = [chord |-> None, triggered |-> 0]
    /\ gh = [hotkey |-> "ctrl+grave", registered |-> FALSE]
    /\ oskeys = NoKeys
    /\ ghCall = [op |-> "none", prev |-> gh.hotkey, wasRegistered |-> FALSE,
                 osCalls |-> 0, swallowed |-> FALSE, unchanged |-> TRUE]

NextHotkey ==
    \/ GhStart
    \/ GhStop
    \/ \E new \in Chords : GhUpdate(new)
    \/ HotkeysCleared
    \/ \E c \in Chords \ InvalidChords : ChordPressed(c)

(***************************************************************************)
(* PageBar, MainWindow page selection and ConfigManager.save               *)
(*                                                                         *)
(* All of it runs on the UI thread; page_selected is connected to          *)
(* MainWindow.switch_to_page_index and delivered within the emit.  Indices *)
(* are those of the code (the first page is 0).                            *)
(***************************************************************************)
PageNames == {"A", "B"}

\* The identifiers _add_page can draw: f"page_{uuid.uuid4().hex[:8]}" is a random
\* value of a finite space, drawn without looking at the identifiers in use.
GeneratedIds == {"page_1", "page_2"}
\* The identifiers a configuration file can hold; "" is what
\* PageConfig.from_dict gives a page written without an id.
PageIds == GeneratedIds \cup {""}

Page(id, name) == [id |-> id, name |-> name]

\* list.pop(index)
Pop(ps, index) == SubSeq(ps, 1, index) \o SubSeq(ps, index + 2, Len(ps))

\* list[index] = page
Replace(ps, index, page) == [ps EXCEPT ![index + 1] = page]

\* ConfigManager.save: the file holds the configuration, or, when writing
\* fails, what it held before
Save(s, ok) ==
    IF ok THEN [s EXCEPT !.saved = s.pages]
    ELSE [s EXCEPT !.failures = s.failures + 1]

\* MainWindow._load_current_page: the grid is cleared, then filled with the
\* buttons of the page at the window's index
LoadCurrentPageKeepsBar(s) ==
    IF Len(s.pages) = 0
    THEN [s EXCEPT !.shown = <<>>]
    ELSE LET w == IF s.win >= Len(s.pages) THEN 0 ELSE s.win
         IN  [s EXCEPT !.win = w, !.shown = <<s.pages[w + 1]>>]

LoadCurrentPage(s) ==
    IF Len(s.pages) = 0
    THEN [s EXCEPT !.shown = <<>>]
    ELSE LET w == IF s.win >= Len(s.pages) THEN 0 ELSE s.win
         IN  [s EXCEPT !.win = w, !.bar = w, !.shown = <<s.pages[w + 1]>>]

\* MainWindow.switch_to_page_index
SwitchToPageIndex(s, index) ==
    IF 0 <= index /\ index < Len(s.pages)
    THEN LoadCurrentPage([s EXCEPT !.win = index])
    ELSE s

\* for i, page in enumerate(pages): if page.id == page_id: the first such i,
\* or -1 when the loop ends without one
RECURSIVE FirstIndexOfId(_, _, _)
FirstIndexOfId(ps, page_id, i) ==
    IF i >= Len(ps) THEN -1
    ELSE IF ps[i + 1].id = page_id THEN i
    ELSE FirstIndexOfId(ps, page_id, i + 1)

SwitchToPageIdOrFirst(s, page_id) ==
    LET i == FirstIndexOfId(s.pages, page_id, 0)
    IN  SwitchToPageIndex(s, IF i = -1 THEN 0 ELSE i)

\* MainWindow.switch_to_page_id
SwitchToPageId(s, page_id) ==
    LET i == FirstIndexOfId(s.pages, page_id, 0)
    IN  IF i = -1 THEN s ELSE SwitchToPageIndex(s, i)

\* NavigatePageAction.execute(params): hasId says whether params has the key
\* "page_id", attached whether the registry's main_window is set
NavigatePageExecute(s, hasId, page_id, attached) ==
    LET id == IF hasId THEN page_id ELSE ""     \* params.get("page_id", "")
    IN  IF id = "" THEN s
        ELSE IF attached THEN SwitchToPageId(s, id)
        ELSE s

PageBarDeleteUnguarded(s, index, ok) ==
    LET s1 == Save([s EXCEPT !.pages = Pop(s.pages, index)], ok)
        s2 == IF s1.bar >= Len(s1.pages)
              THEN [s1 EXCEPT !.bar = Len(s1.pages) - 1] ELSE s1
    IN  SwitchToPageIndex(s2, s2.bar)

PageBarDeleteKeepsIndex(s, index, ok) ==
    IF Len(s.pages) <= 1
    THEN s
    ELSE LET s1 == Save([s EXCEPT !.pages = Pop(s.pages, index)], ok)
         IN  SwitchToPageIndex(s1, s1.bar)

\* PageBar._delete_page
PageBarDelete(s, index, ok) ==
    IF Len(s.pages) <= 1
    THEN s
    ELSE LET s1 == Save([s EXCEPT !.pages = Pop(s.pages, index)], ok)
             s2 == IF s1.bar >= Len(s1.pages)
                   THEN [s1 EXCEPT !.bar = Len(s1.pages) - 1] ELSE s1
         IN  SwitchToPageIndex(s2, s2.bar)

\* PageBar._add_page, the dialog accepted or cancelled
PageBarAdd(s, id, name, accepted, ok) ==
    IF accepted
    THEN LET s1 == Save([s EXCEPT !.pages = Append(s.pages, Page(id, name))], ok)
         IN  SwitchToPageIndex(s1, Len(s1.pages) - 1)
    ELSE s

\* PageBar._edit_page, the dialog accepted or cancelled
PageBarEdit(s, index, name, accepted, ok) ==
    IF accepted
    THEN LoadCurrentPage(
             Save([s EXCEPT !.pages = Replace(s.pages, index,
                                              Page(s.pages[index + 1].id, name))], ok))
    ELSE s

PageState == [pages |-> pages, saved |-> saved, bar |-> bar, win |-> win,
              shown |-> shown, failures |-> saveFailures]

\* The state after a handler, and what the handler was called with: arg is
\* the page_id of a navigation, lenBefore the number of pages before an add,
\* an edit or a delete, barBefore the bar's selection before a delete.
PageCall(op, arg, lenBefore, barBefore, s) ==
    /\ s.failures <= MaxSaveFailures
    /\ pages' = s.pages
    /\ saved' = s.saved
    /\ bar' = s.bar
    /\ win' = s.win
    /\ shown' = s.shown
    /\ saveFailures' = s.failures
    /\ pageOp' = [op |-> op, arg |-> arg, lenBefore |-> lenBefore,
                  barBefore |-> barBefore, unchanged |-> (s = PageState)]

\* The "+" button of the page bar
AddPage(id, name, accepted, ok) ==
    /\ Len(pages) < MaxPages
    /\ PageCall("add", "", Len(pages), 0, PageBarAdd(PageState, id, name, accepted, ok))
    /\ UNCHANGED <<regVars, macroVars, monVars, detVars, ghVars, cfgVars>>

\* "Edit Page" of a tab's context menu
EditPage(index, name, accepted, ok) ==
    /\ index \in 0..(Len(pages) - 1)
    /\ PageCall("edit", "", Len(pages), 0, PageBarEdit(PageState, index, name, accepted, ok))
    /\ UNCHANGED <<regVars, macroVars, monVars, detVars, ghVars, cfgVars>>

\* "Delete Page" of a tab's context menu
DeletePage(index, ok) ==
    /\ index \in 0..(Len(pages) - 1)
    /\ PageCall("delete", "", Len(pages), bar, PageBarDelete(PageState, index, ok))
    /\ UNCHANGED <<regVars, macroVars, monVars, detVars, ghVars, cfgVars>>

\* A tab is clicked: page_selected.emit(idx)
SelectPage(index) ==
    /\ index \in 0..(Len(pages) - 1)
    /\ PageCall("select", "", 0, 0, SwitchToPageIndex(PageState, index))
    /\ UNCHANGED <<regVars, macroVars, monVars, detVars, ghVars, cfgVars>>

\* The params a navigate button can carry: no "page_id" key, an empty id, the
\* id of a page or an id no page has
NavigateParams ==
    {[hasId |-> FALSE, page_id |-> ""]}
        \cup {[hasId |-> TRUE, page_id |-> id] : id \in PageIds \cup {"page_9"}}

\* A button with the action "navigate_page" is triggered
NavigatePage(params, attached) ==
    /\ PageCall(IF attached THEN "navigate" ELSE "navigate, no window",
                IF params.hasId THEN params.page_id ELSE "", 0, 0,
                NavigatePageExecute(PageState, params.hasId, params.page_id, attached))
    /\ UNCHANGED <<regVars, macroVars, monVars, detVars, ghVars, cfgVars>>

\* MainWindow.reload_config, after the settings dialog was accepted: the
\* page list is the one it was; _resize_for_settings and reload_config each
\* call _load_current_page, and PageBar.rebuild keeps _current_index
ReloadConfig ==
    /\ pageOp.op # "none"
    /\ PageCall("reload", "", 0, 0, LoadCurrentPage(LoadCurrentPage(PageState)))
    /\ UNCHANGED <<regVars, macroVars, monVars, detVars, ghVars, cfgVars>>

\* The page lists of the configuration files a load can read
InitialPages ==
    { <<>>, <<Page("page_1", "A")>>, <<Page("page_1", "A"), Page("page_2", "B")>>,
      <<Page("", "A"), Page("", "B")>>, <<Page("page_1", "A"), Page("page_1", "B")>>,
      <<Page("page_1", "A"), Page("page_2", "A"), Page("page_3", "A")>> }

\* The longest of them
MaxLoadedPages == 3

\* ConfigManager.load and the construction of the window that follows it
\* (main.py, MainWindow.__init__): the pages of the user's file or of the
\* defaults, written back when the user's file was not read, then
\* _build_ui's _load_current_page
ConfigLoad(ps) ==
    /\ pageOp.op = "none"
    /\ LET s == LoadCurrentPage([PageState EXCEPT !.pages = ps, !.saved = ps])
       IN  /\ pages' = s.pages
           /\ saved' = s.saved
           /\ bar' = s.bar
           /\ win' = s.win
           /\ shown' = s.shown
    /\ pageOp' = [op |-> "load", arg |-> "", lenBefore |-> 0, barBefore |-> 0,
                  unchanged |-> (ps = pages)]
    /\ UNCHANGED saveFailures
    /\ UNCHANGED <<regVars, macroVars, monVars, detVars, ghVars, cfgVars>>

InitPages ==
    /\ pages = <<>>
    /\ saved = <<>>
    /\ bar = 0
    /\ win = 0
    /\ shown = <<>>
    /\ saveFailures = 0
    /\ pageOp = [op |-> "none", arg |-> "", lenBefore |-> 0, barBefore |-> 0,
                 unchanged |-> TRUE]

NextPages ==
    \/ \E ps \in InitialPages : ConfigLoad(ps)
    \/ \E id \in GeneratedIds, n \in PageNames, ok \in BOOLEAN : AddPage(id, n, TRUE, ok)
    \/ AddPage("page_1", "A", FALSE, TRUE)
    \/ \E i \in 0..(MaxLoadedPages - 1), n \in PageNames, ok \in BOOLEAN :
           EditPage(i, n, TRUE, ok)
    \/ \E i \in 0..(MaxLoadedPages - 1) : EditPage(i, "A", FALSE, TRUE)
    \/ \E i \in 0..(MaxLoadedPages - 1), ok \in BOOLEAN : DeletePage(i, ok)
    \/ \E i \in 0..(MaxLoadedPages - 1) : SelectPage(i)
    \/ \E p \in NavigateParams, w \in BOOLEAN : NavigatePage(p, w)
    \/ ReloadConfig

(***************************************************************************)
(* The configuration model (config/models.py) and ConfigManager's lookup   *)
(* of the page of an application.                                          *)
(*                                                                         *)
(* The name of an application is the sequence of its characters, so that   *)
(* lower() acts on it.  A dataclass instance is a record with its class, a *)
(* dict a record of its keys, a list a sequence, a tuple a record holding  *)
(* its items, the params of an action the set of their items.              *)
(***************************************************************************)
\* str.lower() for one character of the alphabet of the model
LowerChar(c) == CASE c = "A" -> "a" [] c = "B" -> "b" [] OTHER -> c

\* str.lower()
Lower(str) == [i \in 1..Len(str) |-> LowerChar(str[i])]

\* dict.get(key, default)
Get(d, key, default) == IF key \in DOMAIN d THEN d[key] ELSE default

Tuple2(x, y) == [tuple |-> <<x, y>>]

EmptyDict == [x \in {} |-> x]

\* ActionConfig.to_dict
ActionToDict(a) == [type |-> a.type, params |-> a.params]

\* ActionConfig.from_dict
ActionFromDict(data) ==
    [class |-> "ActionConfig",
     type |-> Get(data, "type", ""),
     params |-> Get(data, "params", {})]

\* ButtonConfig.to_dict: list(self.position)
ButtonToDict(b) ==
    [position |-> b.position.tuple, label |-> b.label, icon |-> b.icon,
     action |-> ActionToDict(b.action)]

ButtonFromDictDefaultPosition(data) ==
    [class |-> "ButtonConfig",
     position |-> Tuple2(0, 0),
     label |-> Get(data, "label", ""),
     icon |-> Get(data, "icon", ""),
     action |-> ActionFromDict(Get(data, "action", EmptyDict))]

\* ButtonConfig.from_dict: position=(pos[0], pos[1])
ButtonFromDict(data) ==
    LET pos == Get(data, "position", <<0, 0>>) IN
    [class |-> "ButtonConfig",
     position |-> Tuple2(pos[1], pos[2]),
     label |-> Get(data, "label", ""),
     icon |-> Get(data, "icon", ""),
     action |-> ActionFromDict(Get(data, "action", EmptyDict))]

\* PageConfig.to_dict
PageToDict(p) ==
    [id |-> p.id, name |-> p.name, mapped_apps |-> p.mapped_apps,
     buttons |-> [i \in 1..Len(p.buttons) |-> ButtonToDict(p.buttons[i])]]

\* PageConfig.from_dict
PageFromDict(data) ==
    LET bs == Get(data, "buttons", <<>>) IN
    [class |-> "PageConfig",
     id |-> Get(data, "id", ""),
     name |-> Get(data, "name", "New Page"),
     mapped_apps |-> Get(data, "mapped_apps", <<>>),
     buttons |-> [i \in 1..Len(bs) |-> ButtonFromDict(bs[i])]]

\* AppSettings()
DefaultSettings ==
    [class |-> "AppSettings", grid_rows |-> 3, grid_cols |-> 5,
     button_size |-> 100, button_spacing |-> 8, auto_switch_enabled |-> TRUE,
     always_on_top |-> TRUE, theme |-> "dark", global_hotkey |-> "ctrl+grave"]

\* AppSettings.to_dict
SettingsToDict(st) ==
    [grid_rows |-> st.grid_rows, grid_cols |-> st.grid_cols,
     button_size |-> st.button_size, button_spacing |-> st.button_spacing,
     auto_switch_enabled |-> st.auto_switch_enabled,
     always_on_top |-> st.always_on_top, theme |-> st.theme,
     global_hotkey |-> st.global_hotkey]

\* AppSettings.from_dict
SettingsFromDict(data) ==
    [class |-> "AppSettings",
     grid_rows |-> Get(data, "grid_rows", DefaultSettings.grid_rows),
     grid_cols |-> Get(data, "grid_cols", DefaultSettings.grid_cols),
     button_size |-> Get(data, "button_size", DefaultSettings.button_size),
     button_spacing |-> Get(data, "button_spacing", DefaultSettings.button_spacing),
     auto_switch_enabled |->
         Get(data, "auto_switch_enabled", DefaultSettings.auto_switch_enabled),
     always_on_top |-> Get(data, "always_on_top", DefaultSettings.always_on_top),
     theme |-> Get(data, "theme", DefaultSettings.theme),
     global_hotkey |-> Get(data, "global_hotkey", DefaultSettings.global_hotkey)]

\* AppConfig.to_dict
ConfigToDict(c) ==
    [version |-> c.version, settings |-> SettingsToDict(c.settings),
     pages |-> [i \in 1..Len(c.pages) |-> PageToDict(c.pages[i])]]

\* AppConfig.from_dict
ConfigFromDict(data) ==
    LET ps == Get(data, "pages", <<>>) IN
    [class |-> "AppConfig",
     version |-> Get(data, "version", 1),
     settings |-> SettingsFromDict(Get(data, "settings", EmptyDict)),
     pages |-> [i \in 1..Len(ps) |-> PageFromDict(ps[i])]]

RECURSIVE AppMatchesCaseSensitive(_, _, _)
AppMatchesCaseSensitive(apps, exe, k) ==
    IF k > Len(apps) THEN FALSE
    ELSE IF apps[k] = exe THEN TRUE
    ELSE AppMatchesCaseSensitive(apps, exe, k + 1)

RECURSIVE FindPageCaseSensitive(_, _, _)
FindPageCaseSensitive(ps, exe, i) ==
    IF i > Len(ps) THEN 0
    ELSE IF AppMatchesCaseSensitive(ps[i].mapped_apps, exe, 1) THEN i
    ELSE FindPageCaseSensitive(ps, exe, i + 1)

FindPageForAppCaseSensitive(ps, exe_name) == FindPageCaseSensitive(ps, exe_name, 1)

\* for app in page.mapped_apps: if app.lower() == exe_lower
RECURSIVE AppMatches(_, _, _)
AppMatches(apps, exe_lower, k) ==
    IF k > Len(apps) THEN FALSE
    ELSE IF Lower(apps[k]) = exe_lower THEN TRUE
    ELSE AppMatches(apps, exe_lower, k + 1)

\* for page in self._config.pages: ... return page; return None
RECURSIVE FindPage(_, _, _)
FindPage(ps, exe_lower, i) ==
    IF i > Len(ps) THEN 0
    ELSE IF AppMatches(ps[i].mapped_apps, exe_lower, 1) THEN i
    ELSE FindPage(ps, exe_lower, i + 1)

\* ConfigManager.find_page_for_app: the place in the list of the page it
\* returns (the first page is 1), 0 when it returns None
FindPageForApp(ps, exe_name) == FindPage(ps, Lower(exe_name), 1)

\* Names of applications, as mapped to pages and as reported by the monitor
AppNames == { <<"a", "b">>, <<"A", "b">>, <<"A", "B">>, <<"b", "a">>, <<"B">> }
QueriedNames == AppNames \cup { <<"b">>, <<"c">>, <<>> }

AppLists ==
    { <<>>, << <<"a", "b">> >>, << <<"A", "B">> >>, << <<"b", "a">> >>,
      << <<"B">>, <<"A", "b">> >>, << <<"b", "a">>, <<"A", "B">> >> }

ActionCfg(type, params) == [class |-> "ActionConfig", type |-> type, params |-> params]

ButtonCfg(position, label, icon, action) ==
    [class |-> "ButtonConfig", position |-> position, label |-> label,
     icon |-> icon, action |-> action]

PageCfg(id, name, mapped_apps, buttons) ==
    [class |-> "PageConfig", id |-> id, name |-> name,
     mapped_apps |-> mapped_apps, buttons |-> buttons]

AppCfg(version, settings, ps) ==
    [class |-> "AppConfig", version |-> version, settings |-> settings, pages |-> ps]

HotkeyButton ==
    ButtonCfg(Tuple2(1, 2), "Copy", "copy.png",
              ActionCfg("hotkey", {<<"keys", "ctrl+c">>, <<"note", "x">>}))

\* ButtonConfig()
DefaultButton == ButtonCfg(Tuple2(0, 0), "", "", ActionCfg("", {}))

\* The pages of the model: "Main" with each list of applications, "Media"
\* with two buttons, and PageConfig()
ModelPages ==
    { PageCfg("page_1", "Main", apps, <<HotkeyButton>>) : apps \in AppLists }
        \cup { PageCfg("page_2", "Media", << <<"B">>, <<"A", "b">> >>,
                       <<DefaultButton, HotkeyButton>>),
               PageCfg("", "New Page", <<>>, <<>>) }

CustomSettings ==
    [class |-> "AppSettings", grid_rows |-> 4, grid_cols |-> 6,
     button_size |-> 80, button_spacing |-> 4, auto_switch_enabled |-> FALSE,
     always_on_top |-> FALSE, theme |-> "light", global_hotkey |-> "alt+f1"]

RECURSIVE SeqsUpTo(_, _)
SeqsUpTo(S, n) ==
    IF n = 0 THEN { <<>> }
    ELSE LET shorter == SeqsUpTo(S, n - 1)
         IN  shorter \cup { Append(q, x) : q \in shorter, x \in S }

ModelPageLists == SeqsUpTo(ModelPages, MaxModelPages)

ModelConfigs ==
    { AppCfg(v, st, ps) : v \in {1, 2}, st \in {DefaultSettings, CustomSettings},
                          ps \in ModelPageLists }

\* find_page_for_app(exe_name) is called on a configuration.  The functions of
\* the configuration model keep no state: one call is made in a run.
FindPageCall(c, exe_name) ==
    /\ modelCall.op = "none"
    /\ modelCall' = [op |-> "find_page_for_app", config |-> c, arg |-> exe_name,
                     found |-> FindPageForApp(c.pages, exe_name), back |-> c]
    /\ UNCHANGED <<execCall, fs, mgr>>
    /\ UNCHANGED <<appVars, plug>>

\* A configuration is written as a dict and read back
RoundTrip(c) ==
    /\ modelCall.op = "none"
    /\ modelCall' = [op |-> "round_trip", config |-> c, arg |-> <<>>, found |-> 0,
                     back |-> ConfigFromDict(ConfigToDict(c))]
    /\ UNCHANGED <<execCall, fs, mgr>>
    /\ UNCHANGED <<appVars, plug>>

(***************************************************************************)
(* ButtonEditorDialog (ui/button_editor_dialog.py): the widgets are filled *)
(* from a ButtonConfig by _load_config and read back by get_config.  A     *)
(* combo box is the list of the data of its items and the index of the     *)
(* current one, the first item (index 0) once it has items, -1 when empty. *)
(* The params of an action are a dict here.                                *)
(***************************************************************************)
ACTION_TYPES ==
    <<"", "launch_app", "hotkey", "media_control", "system_monitor", "navigate_page">>

MEDIA_COMMANDS ==
    <<"play_pause", "next_track", "prev_track", "stop", "volume_up", "volume_down",
      "mute">>

\* A combo box after its items were added: the first is the current one
Combo(items) == [items |-> items, index |-> IF Len(items) = 0 THEN -1 ELSE 0]

\* for i in range(combo.count()): if combo.itemData(i) == value:
\* combo.setCurrentIndex(i); break
RECURSIVE SelectData(_, _, _)
SelectData(combo, value, i) ==
    IF i >= Len(combo.items) THEN combo
    ELSE IF combo.items[i + 1] = value THEN [combo EXCEPT !.index = i]
    ELSE SelectData(combo, value, i + 1)

\* QComboBox.currentData(): None when there is no current item
CurrentData(combo) == IF combo.index = -1 THEN None ELSE combo.items[combo.index + 1]

\* ButtonEditorDialog._build_ui and _load_config: the state of the widgets
\* for a button and the identifiers of the configuration's pages
LoadConfig(config, page_ids) ==
    LET action_type == config.action.type
        params      == config.action.params
        launch      == action_type = "launch_app"
    IN  [label     |-> config.label,
         icon      |-> config.icon,
         type      |-> SelectData(Combo(ACTION_TYPES), action_type, 0),
         app_path  |-> IF launch THEN Get(params, "path", "") ELSE "",
         app_args  |-> IF launch THEN Get(params, "args", "") ELSE "",
         app_workdir |-> IF launch THEN Get(params, "working_dir", "") ELSE "",
         hotkey    |-> IF action_type = "hotkey" THEN Get(params, "keys", "") ELSE "",
         media     |-> IF action_type = "media_control"
                       THEN SelectData(Combo(MEDIA_COMMANDS), Get(params, "command", ""), 0)
                       ELSE Combo(MEDIA_COMMANDS),
         page      |-> IF action_type = "navigate_page"
                       THEN SelectData(Combo(page_ids), Get(params, "page_id", ""), 0)
                       ELSE Combo(page_ids)]

\* ButtonEditorDialog.get_config
GetConfig(w, row, col) ==
    LET action_type == CurrentData(w.type)
        params ==
            CASE action_type = "launch_app" ->
                     [path |-> w.app_path]
                         @@ (IF w.app_args # "" THEN [args |-> w.app_args] ELSE EmptyDict)
                         @@ (IF w.app_workdir # ""
                             THEN [working_dir |-> w.app_workdir] ELSE EmptyDict)
              [] action_type = "hotkey" -> [keys |-> w.hotkey]
              [] action_type = "media_control" -> [command |-> CurrentData(w.media)]
              [] action_type = "system_monitor" -> [display |-> "cpu_ram"]
              [] action_type = "navigate_page" ->
                     [page_id |-> IF CurrentData(w.page) = None
                                  THEN "" ELSE CurrentData(w.page)]
              [] OTHER -> EmptyDict
    IN  ButtonCfg(Tuple2(row, col), w.label, w.icon,
                  ActionCfg(IF action_type = None THEN "" ELSE action_type, params))

\* Buttons of a configuration: one of each type of the editor, a macro and a
\* button of a plugin's action type
EditedButtons ==
    { ButtonCfg(Tuple2(1, 2), "Lbl", "i.png", ActionCfg(t, p)) : t \in {""}, p \in {EmptyDict} }
      \cup { ButtonCfg(Tuple2(0, 1), "App", "", ActionCfg("launch_app", p)) :
                 p \in { [path |-> "a.exe"],
                         [path |-> "a.exe", args |-> "-x", working_dir |-> "d"] } }
      \cup { ButtonCfg(Tuple2(0, 0), "Copy", "", ActionCfg("hotkey", [keys |-> "ctrl+c"])),
             ButtonCfg(Tuple2(0, 2), "Next", "",
                       ActionCfg("media_control", [command |-> "next_track"])),
             ButtonCfg(Tuple2(1, 0), "", "",
                       ActionCfg("system_monitor", [display |-> "cpu_ram"])),
             ButtonCfg(Tuple2(1, 1), "Go", "",
                       ActionCfg("navigate_page", [page_id |-> "page_2"])),
             ButtonCfg(Tuple2(2, 0), "Macro", "",
                       ActionCfg("macro", [steps |-> <<Hotkey("ctrl+c"), Delay(100)>>])),
             ButtonCfg(Tuple2(2, 1), "Timer", "",
                       ActionCfg("plugin_timer", [seconds |-> 5])) }

\* The editor is opened on a button at its position and closed with OK
\* without an edit
EditButton(b, page_ids) ==
    /\ modelCall.op = "none"
    /\ modelCall' = [op |-> "edit_button", config |-> b, arg |-> page_ids, found |-> 0,
                     back |-> GetConfig(LoadConfig(b, page_ids),
                                        b.position.tuple[1], b.position.tuple[2])]
    /\ UNCHANGED <<execCall, fs, mgr>>
    /\ UNCHANGED <<appVars, plug>>

\* AppConfig()
BuiltinConfig == AppCfg(1, DefaultSettings, <<>>)

InitModels ==
    modelCall = [op |-> "none", config |-> BuiltinConfig, arg |-> <<>>, found |-> 0,
                 back |-> BuiltinConfig]

NextModels ==
    \/ \E ps \in ModelPageLists, n \in QueriedNames :
           FindPageCall(AppCfg(1, DefaultSettings, ps), n)
    \/ \E c \in ModelConfigs : RoundTrip(c)
    \/ \E b \in EditedButtons, ids \in {<<>>, <<"page_1", "page_2">>} : EditButton(b, ids)

(***************************************************************************)
(* LaunchAppAction.execute and MacroAction.get_display_text                *)
(***************************************************************************)
\* str.split(): the words between runs of blanks; a str is the sequence of
\* its characters
RECURSIVE SplitFrom(_, _, _, _)
SplitFrom(str, i, word, words) ==
    IF i > Len(str)
    THEN IF word = <<>> THEN words ELSE Append(words, word)
    ELSE IF str[i] = " "
    THEN SplitFrom(str, i + 1, <<>>, IF word = <<>> THEN words ELSE Append(words, word))
    ELSE SplitFrom(str, i + 1, Append(word, str[i]), words)

Split(str) == SplitFrom(str, 1, <<>>, <<>>)

\* What subprocess.Popen and os.startfile can do
PopenOutcomes == {"ok", "FileNotFoundError", "PermissionError"}
StartfileOutcomes == {"ok", "OSError"}

LaunchAppExecuteFallbackOnAnyError(params, os) ==
    LET path == Get(params, "path", "")
        args == Get(params, "args", <<>>)
        working_dir == Get(params, "working_dir", "")
        cmd == <<path>> \o (IF args # <<>> THEN Split(args) ELSE <<>>)
        cwd == IF working_dir # "" /\ os.isdir THEN working_dir ELSE ""
        spawn == [fn |-> "Popen", cmd |-> cmd, cwd |-> cwd]
        open == [fn |-> "startfile", cmd |-> <<path>>, cwd |-> ""]
    IN  IF path = ""
        THEN [outcome |-> "returned", calls |-> <<>>, errors |-> 0]
        ELSE IF os.popen = "ok"
        THEN [outcome |-> "returned", calls |-> <<spawn>>, errors |-> 0]
        ELSE [outcome |-> "returned", calls |-> <<spawn, open>>,
              errors |-> IF os.startfile = "ok" THEN 0 ELSE 1]

\* LaunchAppAction.execute: whether it returns, the calls it makes to start
\* something, and the errors it logs (logger.exception)
LaunchAppExecute(params, os) ==
    LET path == Get(params, "path", "")
        args == Get(params, "args", <<>>)
        working_dir == Get(params, "working_dir", "")
        cmd == <<path>> \o (IF args # <<>> THEN Split(args) ELSE <<>>)
        cwd == IF working_dir # "" /\ os.isdir THEN working_dir ELSE ""
        spawn == [fn |-> "Popen", cmd |-> cmd, cwd |-> cwd]
        open == [fn |-> "startfile", cmd |-> <<path>>, cwd |-> ""]
    IN  IF path = ""
        THEN [outcome |-> "returned", calls |-> <<>>, errors |-> 0]
        ELSE IF os.popen = "ok"
        THEN [outcome |-> "returned", calls |-> <<spawn>>, errors |-> 0]
        ELSE IF os.popen = "FileNotFoundError"
        THEN \* except FileNotFoundError: try: os.startfile(path) except Exception: log
             [outcome |-> "returned", calls |-> <<spawn, open>>,
              errors |-> IF os.startfile = "ok" THEN 0 ELSE 1]
        ELSE \* except Exception: log
             [outcome |-> "returned", calls |-> <<spawn>>, errors |-> 1]

\* The params of a launch_app button: each key present or not
LaunchParams ==
    { [path |-> p, args |-> a, working_dir |-> w] :
          p \in {"", "calc.exe", "notes.txt"},
          a \in { <<>>, <<"x">>, <<" ", "x", " ", " ", "y">> },
          w \in {"", "C:/work"} }
      \cup { [args |-> <<"x">>], EmptyDict, [path |-> "calc.exe"] }

OsBehaviours ==
    [popen : PopenOutcomes, startfile : StartfileOutcomes, isdir : BOOLEAN]

\* str(n) for a natural number
Digit(d) ==
    CASE d = 0 -> "0" [] d = 1 -> "1" [] d = 2 -> "2" [] d = 3 -> "3" [] d = 4 -> "4"
      [] d = 5 -> "5" [] d = 6 -> "6" [] d = 7 -> "7" [] d = 8 -> "8" [] d = 9 -> "9"

RECURSIVE Str(_)
Str(n) == IF n < 10 THEN Digit(n) ELSE Str(n \div 10) \o Digit(n % 10)

MacroGetDisplayTextSingular(params) ==
    LET steps == Get(params, "steps", <<>>) IN
    IF steps = <<>>
    THEN [behaviour |-> "none", text |-> ""]
    ELSE [behaviour |-> "text",
          text |-> "Macro (" \o Str(Len(steps))
                       \o (IF Len(steps) = 1 THEN " step)" ELSE " steps)")]

\* MacroAction.get_display_text
MacroGetDisplayText(params) ==
    LET steps == Get(params, "steps", <<>>) IN
    IF steps = <<>>
    THEN [behaviour |-> "none", text |-> ""]
    ELSE [behaviour |-> "text", text |-> "Macro (" \o Str(Len(steps)) \o " steps)"]

\* The numbers of steps of the macros of the model
StepCounts == {0, 1, 2, 10, 12}

MacroParams ==
    { [steps |-> [i \in 1..n |-> Delay(100)]] : n \in StepCounts } \cup { EmptyDict }

\* The registry of the application: the macro executor under "macro", another
\* executor under "plugin_x", nothing under "hotkey"
AppActions == [t \in ActionTypes |->
                  CASE t = "macro" -> "MacroAction" [] t = "plugin_x" -> "ex1"
                    [] OTHER -> None]

\* What the executor registered for the type does with the params; beh is what
\* an executor other than the macro's does
ExecutorText(t, params, beh) ==
    IF AppActions[t] = "MacroAction" THEN MacroGetDisplayText(params)
    ELSE [behaviour |-> beh, text |-> "plugin text"]

HotkeyExecuteNoCatch(params, send) ==
    LET keys == Get(params, "keys", "") IN
    IF keys = ""
    THEN [outcome |-> "returned", sent |-> <<>>, errors |-> 0]
    ELSE [outcome |-> IF send = "raised" THEN "raised" ELSE "returned",
          sent |-> <<keys>>, errors |-> 0]

\* HotkeyAction.execute: whether it returns, the chords it gives to
\* keyboard.send, the errors it logs; send is how keyboard.send ends
HotkeyExecute(params, send) ==
    LET keys == Get(params, "keys", "") IN
    IF keys = ""
    THEN [outcome |-> "returned", sent |-> <<>>, errors |-> 0]
    ELSE \* try: keyboard.send(keys)  except Exception: logger.exception(...)
         [outcome |-> "returned", sent |-> <<keys>>,
          errors |-> IF send = "raised" THEN 1 ELSE 0]

\* One iteration of the loop of _run_steps for a step of type hotkey with
\* these params: the same record, from the step's plan and from where the loop
\* goes after the step
MacroHotkeyStep(params, send) ==
    LET plan == StepPlan(Hotkey(Get(params, "keys", "")))
        next == AfterStep(1, 1, send)
    IN  [outcome |-> IF next.pc = "done" THEN "returned" ELSE "raised",
         sent |-> IF plan.op = "send" THEN <<plan.arg>> ELSE <<>>,
         errors |-> IF plan.op = "send" /\ send = "raised" THEN 1 ELSE 0]

\* The params of a hotkey button or of a hotkey step
HotkeyParams ==
    { EmptyDict, [keys |-> ""], [keys |-> "ctrl+a"], [keys |-> "bad"],
      [keys |-> "ctrl+b", note |-> "x"] }

\* The same params are given to the Hotkey executor and to a macro of one
\* hotkey step
HotkeyBoth(params, send) ==
    /\ send \in PlanOutcomes([op |-> "send", arg |-> Get(params, "keys", ""), ms |-> 0])
    /\ LET e == HotkeyExecute(params, send) IN
       execCall' = [op |-> "hotkey", params |-> params, os |-> [send |-> send],
                    outcome |-> e.outcome, calls |-> e.sent, errors |-> e.errors,
                    value |-> MacroHotkeyStep(params, send)]
    /\ UNCHANGED <<modelCall, fs, mgr>>
    /\ UNCHANGED <<appVars, plug>>

\* A launch_app button is triggered
LaunchApp(params, os) ==
    /\ LET r == LaunchAppExecute(params, os) IN
       execCall' = [op |-> "launch_app", params |-> params, os |-> os,
                    outcome |-> r.outcome, calls |-> r.calls, errors |-> r.errors,
                    value |-> None]
    /\ UNCHANGED <<modelCall, fs, mgr>>
    /\ UNCHANGED <<appVars, plug>>

\* A button asks the registry for the display text of its action
DisplayText(t, params, beh) ==
    /\ LET e == ExecutorText(t, params, beh)
           r == RegistryGetDisplayText(AppActions, t, e.behaviour)
       IN  execCall' = [op |-> "get_display_text", params |-> params,
                        os |-> [type |-> t, behaviour |-> e.behaviour],
                        outcome |-> r.outcome, calls |-> <<>>, errors |-> 0,
                        value |-> IF r.value = "text" THEN e.text ELSE None]
    /\ UNCHANGED <<modelCall, fs, mgr>>
    /\ UNCHANGED <<appVars, plug>>

InitExecutors ==
    execCall = [op |-> "none", params |-> EmptyDict, os |-> EmptyDict,
                outcome |-> "none", calls |-> <<>>, errors |-> 0, value |-> None]

NextExecutors ==
    \/ \E p \in LaunchParams, os \in OsBehaviours : LaunchApp(p, os)
    \/ \E t \in ActionTypes, p \in MacroParams, beh \in TextBehaviours :
           DisplayText(t, p, beh)
    \/ \E p \in HotkeyParams, o \in {"ok", "raised"} : HotkeyBoth(p, o)

(***************************************************************************)
(* ConfigManager.load and ConfigManager.save against the file system       *)
(*                                                                         *)
(* A configuration is named by where it came from; a file holds nothing,   *)
(* a complete document, the beginning of a document, or something that is  *)
(* not a configuration.  The program runs on Windows, where os.rename      *)
(* fails when the destination exists.                                      *)
(***************************************************************************)
NoFile == [kind |-> "none", cfg |-> ""]
Garbage == [kind |-> "garbage", cfg |-> ""]

\* json.dumps(config.to_dict()): the complete document of a configuration
Dump(c) == [kind |-> "doc", cfg |-> c]

\* A write of the document that stopped before its end
Partial(c) == [kind |-> "partial", cfg |-> c]

\* AppConfig.from_dict(json.loads(text)): the configuration, or an exception
Parse(file) ==
    IF file.kind = "doc" THEN [ok |-> TRUE, config |-> file.cfg]
    ELSE [ok |-> FALSE, config |-> ""]

\* Path.exists()
Exists(file) == file.kind # "none"

UserFiles == {NoFile, Garbage, Dump("user")}
BundledFiles == {NoFile, Garbage, Dump("bundled")}
EditedConfigs == {"edited1", "edited2"}

LoadReadKeepsMalformed(f) ==
    IF Exists(f.user)
    THEN [config |-> IF Parse(f.user).ok THEN Parse(f.user).config ELSE "builtin",
          fallback |-> FALSE]
    ELSE IF Exists(f.bundled)
    THEN IF Parse(f.bundled).ok
         THEN [config |-> Parse(f.bundled).config, fallback |-> TRUE]
         ELSE [config |-> "builtin", fallback |-> TRUE]
    ELSE [config |-> "builtin", fallback |-> TRUE]

\* ConfigManager.load up to its call of save: the configuration it takes and
\* whether it fell back (and so saves)
LoadRead(f) ==
    IF Exists(f.user) /\ Parse(f.user).ok
    THEN [config |-> Parse(f.user).config, fallback |-> FALSE]
    ELSE IF Exists(f.bundled)
    THEN IF Parse(f.bundled).ok
         THEN [config |-> Parse(f.bundled).config, fallback |-> TRUE]
         ELSE [config |-> "builtin", fallback |-> TRUE]
    ELSE [config |-> "builtin", fallback |-> TRUE]

\* The file system the program is started in: the user's file, the bundled
\* default and whether the user's directory exists
Environment(u, b, d) ==
    /\ mgr.pc = "start"
    /\ Exists(u) => d
    /\ fs' = [dir |-> d, user |-> u, bundled |-> b,
              tmp |-> IF d THEN fs.tmp ELSE NoFile]
    /\ UNCHANGED <<mgr, modelCall, execCall>>
    /\ UNCHANGED <<appVars, plug>>

\* main: config_manager.load()
Load ==
    /\ mgr.pc = "start"
    /\ LET r == LoadRead(fs) IN
       mgr' = [pc |-> IF r.fallback THEN "mkdir" ELSE "idle", op |-> "load",
               config |-> r.config, prev |-> fs.user,
               failed |-> FALSE]
    /\ UNCHANGED <<fs, modelCall, execCall>>
    /\ UNCHANGED <<appVars, plug>>

\* An editor changes the configuration and calls save()
SaveCall(c) ==
    /\ mgr.pc = "idle"
    /\ mgr' = [pc |-> "mkdir", op |-> "save", config |-> c, prev |-> fs.user,
               failed |-> FALSE]
    /\ UNCHANGED <<fs, modelCall, execCall>>
    /\ UNCHANGED <<appVars, plug>>

\* One step of save(): failed records that a call of this save raised
ManagerStep(pc, f) ==
    /\ mgr' = [mgr EXCEPT !.pc = pc, !.failed = @ \/ pc \in {"except", "raised"}]
    /\ fs' = f
    /\ UNCHANGED <<modelCall, execCall>>
    /\ UNCHANGED <<appVars, plug>>

\* self._path.parent.mkdir(parents=True, exist_ok=True), outside the try: an
\* exception leaves save(), and load() when load called it
Mkdir(ok) ==
    /\ mgr.pc = "mkdir"
    /\ fs.dir => ok
    /\ IF ok THEN ManagerStep("write", [fs EXCEPT !.dir = TRUE])
       ELSE ManagerStep("raised", fs)

\* tmp_path.write_text(...): the whole document, a part of it, or nothing
WriteTmp(outcome) ==
    /\ mgr.pc = "write"
    /\ CASE outcome = "ok" -> ManagerStep("move", [fs EXCEPT !.tmp = Dump(mgr.config)])
         [] outcome = "partial" ->
                ManagerStep("except", [fs EXCEPT !.tmp = Partial(mgr.config)])
         [] OTHER -> ManagerStep("except", fs)

\* shutil.move: os.rename(src, dst), which replaces nothing on Windows; when
\* it raises OSError the file is copied and the source unlinked
MoveRename ==
    /\ mgr.pc = "move"
    /\ IF Exists(fs.user)
       THEN ManagerStep("copy", fs)
       ELSE ManagerStep("idle", [fs EXCEPT !.user = fs.tmp, !.tmp = NoFile])

\* copy2 opens the destination for writing, which truncates it
MoveCopyOpen(ok) ==
    /\ mgr.pc = "copy"
    /\ IF ok THEN ManagerStep("copying", [fs EXCEPT !.user = Partial(mgr.config)])
       ELSE ManagerStep("except", fs)

\* copy2 writes the destination to its end
MoveCopyWrite(ok) ==
    /\ mgr.pc = "copying"
    /\ IF ok THEN ManagerStep("unlink", [fs EXCEPT !.user = fs.tmp])
       ELSE ManagerStep("except", fs)

\* os.unlink(src), the last call of shutil.move
MoveUnlink(ok) ==
    /\ mgr.pc = "unlink"
    /\ IF ok THEN ManagerStep("idle", [fs EXCEPT !.tmp = NoFile])
       ELSE ManagerStep("except", fs)

\* except Exception: logger.exception(...); if tmp_path.exists():
\* tmp_path.unlink(), whose exception leaves save()
SaveExcept(ok) ==
    /\ mgr.pc = "except"
    /\ Exists(fs.tmp) \/ ok
    /\ IF ok THEN ManagerStep("idle", [fs EXCEPT !.tmp = NoFile])
       ELSE ManagerStep("raised", fs)

SavePcs == {"mkdir", "write", "move", "copy", "copying", "unlink", "except"}

\* The process is killed, or the machine stops, inside save()
Crash ==
    /\ mgr.pc \in SavePcs
    /\ ManagerStep("crashed", fs)

\* The program is started again: ConfigManager.__init__
Restart ==
    /\ mgr.pc \in {"crashed", "raised"}
    /\ mgr' = [pc |-> "start", op |-> "none", config |-> "builtin", prev |-> NoFile,
            failed |-> FALSE]
    /\ UNCHANGED <<fs, modelCall, execCall>>
    /\ UNCHANGED <<appVars, plug>>

InitManager ==
    /\ mgr = [pc |-> "start", op |-> "none", config |-> "builtin", prev |-> NoFile,
            failed |-> FALSE]
    /\ fs = [dir |-> FALSE, user |-> NoFile, bundled |-> NoFile, tmp |-> NoFile]

NextManager ==
    \/ \E u \in UserFiles, b \in BundledFiles, d \in BOOLEAN : Environment(u, b, d)
    \/ Load
    \/ \E c \in EditedConfigs : SaveCall(c)
    \/ \E ok \in BOOLEAN : Mkdir(ok)
    \/ \E o \in {"ok", "partial", "nothing"} : WriteTmp(o)
    \/ MoveRename
    \/ \E ok \in BOOLEAN : MoveCopyOpen(ok)
    \/ \E ok \in BOOLEAN : MoveCopyWrite(ok)
    \/ \E ok \in BOOLEAN : MoveUnlink(ok)
    \/ \E ok \in BOOLEAN : SaveExcept(ok)
    \/ Crash
    \/ Restart

(***************************************************************************)
(* PluginLoader (plugins/loader.py)                                        *)
(*                                                                         *)
(* A module of the plugins directory is described by how its loading goes: *)
(* it is no package, its import or the constructor of its Plugin raises,   *)
(* it has no Plugin class, its initialize() raises, its get_action_type()  *)
(* raises, or it loads and reports an action type.  A plugin is named by   *)
(* the place of its module in the directory.  The dict self.plugins is the *)
(* sequence of its items in insertion order.                               *)
(***************************************************************************)
PluginTypes == {"t1", "t2"}

PluginModules ==
    { [kind |-> k, type |-> "", shutdownRaises |-> FALSE] :
          k \in {"not_pkg", "import_raises", "no_plugin", "init_raises", "type_raises"} }
      \cup { [kind |-> "ok", type |-> t, shutdownRaises |-> r] :
                 t \in PluginTypes, r \in BOOLEAN }

\* d[key] = value on a dict: the value of an existing key is replaced where
\* the key stands, a new key is added at the end
RECURSIVE DictSetFrom(_, _, _, _)
DictSetFrom(d, key, value, i) ==
    IF i > Len(d) THEN Append(d, [key |-> key, value |-> value])
    ELSE IF d[i].key = key THEN [d EXCEPT ![i].value = value]
    ELSE DictSetFrom(d, key, value, i + 1)

DictSet(d, key, value) == DictSetFrom(d, key, value, 1)

\* pkgutil.iter_modules([plugins_dir]): the modules of the directory
Discover(mods) ==
    /\ plug.pc = "start"
    /\ plug' = [plug EXCEPT !.pc = "loading", !.mods = mods, !.i = 1]
    /\ UNCHANGED <<appVars, modelCall, execCall, fs, mgr>>

\* One iteration of the loop of discover_and_load
LoadModule ==
    /\ plug.pc = "loading"
    /\ plug.i <= Len(plug.mods)
    /\ LET mod == plug.mods[plug.i]
           initialized == mod.kind \in {"type_raises", "ok"}
       IN  plug' = [plug EXCEPT
                       !.i = @ + 1,
                       !.initialized = IF initialized THEN @ \cup {plug.i} ELSE @,
                       !.plugins = IF mod.kind = "ok"
                                   THEN DictSet(@, mod.type, plug.i) ELSE @,
                       !.errors = IF mod.kind \in {"import_raises", "init_raises",
                                                  "type_raises"}
                                  THEN @ + 1 ELSE @]
    /\ UNCHANGED <<appVars, modelCall, execCall, fs, mgr>>

\* discover_and_load returns
LoadReturns ==
    /\ plug.pc = "loading"
    /\ plug.i > Len(plug.mods)
    /\ plug' = [plug EXCEPT !.pc = "loaded", !.i = 1]
    /\ UNCHANGED <<appVars, modelCall, execCall, fs, mgr>>

\* One iteration of the loop of shutdown_all: plugin.shutdown() is called,
\* an exception of it is logged
ShutdownPlugin ==
    /\ plug.pc = "loaded"
    /\ plug.i <= Len(plug.plugins)
    /\ LET id == plug.plugins[plug.i].value IN
       plug' = [plug EXCEPT
                   !.i = @ + 1,
                   !.shutdowns = Append(@, id),
                   !.errors = IF plug.mods[id].shutdownRaises THEN @ + 1 ELSE @]
    /\ UNCHANGED <<appVars, modelCall, execCall, fs, mgr>>

\* shutdown_all returns
ShutdownReturns ==
    /\ plug.pc = "loaded"
    /\ plug.i > Len(plug.plugins)
    /\ plug' = [plug EXCEPT !.pc = "down"]
    /\ UNCHANGED <<appVars, modelCall, execCall, fs, mgr>>

\* PluginLoader()
InitPlugins ==
    plug = [pc |-> "start", mods |-> <<>>, i |-> 1, plugins |-> <<>>,
            initialized |-> {}, shutdowns |-> <<>>, errors |-> 0]

NextPlugins ==
    \/ \E mods \in SeqsUpTo(PluginModules, MaxPlugins) : Discover(mods)
    \/ LoadModule
    \/ LoadReturns
    \/ ShutdownPlugin
    \/ ShutdownReturns

(***************************************************************************)
(* Specifications                                                          *)
(***************************************************************************)
Init ==
    /\ InitRegistry /\ InitMacro /\ InitMonitor
    /\ InitDetector /\ InitHotkey /\ InitPages
    /\ InitModels /\ InitExecutors /\ InitManager
    /\ InitPlugins

Next ==
    \/ NextRegistry \/ NextMacro \/ NextMonitor
    \/ NextDetector \/ NextHotkey \/ NextPages
    \/ NextModels \/ NextExecutors \/ NextManager
    \/ NextPlugins

Spec == Init /\ [][Next]_vars

SpecRegistry == Init /\ [][NextRegistry]_vars

SpecMacro == Init /\ [][NextMacro]_vars

\* Each started thread keeps being scheduled, and time passes.
FairSpecMacro ==
    /\ SpecMacro
    /\ \A t \in 1..MaxTasks : WF_vars(t <= Len(tasks) /\ TaskStep(t))
    /\ WF_vars(Tick)

SpecMonitor == Init /\ [][NextMonitor]_vars

\* The monitor's thread keeps being scheduled.
FairSpecMonitor == SpecMonitor /\ WF_vars(MonitorThread)

SpecDetector == Init /\ [][NextDetector]_vars

SpecHook == Init /\ [][NextHook]_vars

\* Each hook thread keeps being scheduled, and a join ends within its timeout.
FairSpecHook ==
    /\ SpecHook
    /\ \A t \in 1..MaxHookThreads : WF_vars(HookThreadStep(t))
    /\ WF_vars(DetStopReturn)

SpecHotkey == Init /\ [][NextHotkey]_vars

SpecPages == Init /\ [][NextPages]_vars

SpecModels == Init /\ [][NextModels]_vars

SpecExecutors == Init /\ [][NextExecutors]_vars

SpecManager == Init /\ [][NextManager]_vars

SpecPlugins == Init /\ [][NextPlugins]_vars

(***************************************************************************)
(* Properties of ActionRegistry (checked under SpecRegistry)               *)
(***************************************************************************)

\* C1: every ActionRegistry.execute call on a registered type returns
\* normally to its caller, also when the executor raises, and leaves the
\* type-to-executor mapping as it was before the call.
RegistryExecuteContainsFailure ==
    (regCall.op = "execute" /\ regCall.before[regCall.type] # None)
        => /\ regCall.outcome = "returned"
           /\ regCall.invoked = regCall.before[regCall.type]
           /\ regCall.after = regCall.before

\* An execute call whose executor raised has returned.
RegistryExecuteFailureSeen ==
    /\ regCall.op = "execute"
    /\ regCall.invoked # None
    /\ regCall.behaviour = "raise"
    /\ regCall.outcome = "returned"

\* C2: for a type that was never registered, execute invokes no executor and
\* changes nothing, get_display_text returns None, and both return normally.
RegistryUnknownTypeIsNoOp ==
    (regCall.op # "none" /\ regCall.before[regCall.type] = None)
        => /\ regCall.invoked = None
           /\ regCall.outcome = "returned"
           /\ regCall.after = regCall.before
           /\ regCall.value = None

\* execute was called for an unregistered type while another type has an executor.
RegistryUnknownTypeSeen ==
    /\ regCall.op = "execute"
    /\ regCall.before[regCall.type] = None
    /\ \E t \in ActionTypes : regCall.before[t] # None
    /\ regCall.invoked = None

(***************************************************************************)
(* Properties of MacroAction (checked under SpecMacro and FairSpecMacro)   *)
(***************************************************************************)
RECURSIVE DelaySum(_, _)
\* The milliseconds the delay steps among the first k steps ask to sleep.
DelaySum(steps, k) ==
    IF k = 0 THEN 0
    ELSE LET plan == StepPlan(steps[k]) IN
         DelaySum(steps, k - 1)
            + (IF plan.op = "sleep" /\ plan.ms > 0 THEN plan.ms ELSE 0)

\* The indices of the steps a task has completed, in the order of completion.
EndIndices(task) ==
    LET ends == SelectSeq(task.log, LAMBDA e : e.ev = "end") IN
    [k \in 1..Len(ends) |-> ends[k].i]

\* C3: within one task the steps run strictly in list order, step i+1 begins
\* only after step i has ended, and no step begins (and no delay step ends)
\* before the thread has slept through all the delays that precede it.
MacroStepsStrictlySequential ==
    \A t \in 1..Len(tasks) :
        LET task == tasks[t] IN
        /\ \A k \in 1..Len(task.log) :
            /\ task.log[k].i = (k + 1) \div 2
            /\ task.log[k].ev = (IF k % 2 = 1 THEN "begin" ELSE "end")
            /\ task.log[k].ev = "begin"
                => task.log[k].slept >= DelaySum(task.steps, task.log[k].i - 1)
            /\ task.log[k].ev = "end"
                => task.log[k].slept >= DelaySum(task.steps, task.log[k].i)
        /\ task.pc = "in_step" <=> Len(task.log) % 2 = 1

\* A hotkey step that follows two delay steps (50 ms and the default 100 ms)
\* has begun, after 150 ms of sleep.
MacroHotkeyAfterDelaysSeen ==
    \E t \in 1..Len(tasks) : \E k \in 1..Len(tasks[t].log) :
        /\ tasks[t].log[k].ev = "begin"
        /\ tasks[t].log[k].op = "send"
        /\ tasks[t].log[k].i = 4
        /\ tasks[t].log[k].slept = 150

MacroFailureDoesNotAbort ==
    \A t \in 1..Len(tasks) :
        LET task == tasks[t] IN
        /\ task.pc = "done" => EndIndices(task) = [k \in 1..Len(task.steps) |-> k]
        /\ \A k \in 1..Len(task.log) :
            (task.log[k].outcome \in {"raised", "unknown"} /\ task.log[k].i < Len(task.steps))
                => (task.pc # "done" \/ \E m \in (k + 1)..Len(task.log) :
                        task.log[m].ev = "end" /\ task.log[m].i = task.log[k].i + 1)

\* A task has ended whose first step raised and whose last step succeeded.
MacroStepAfterFailureSeen ==
    \E t \in 1..Len(tasks) :
        /\ tasks[t].pc = "done"
        /\ Len(tasks[t].log) >= 4
        /\ tasks[t].log[2].outcome = "raised"
        /\ tasks[t].log[Len(tasks[t].log)].outcome = "ok"
        /\ tasks[t].log[Len(tasks[t].log)].op = "write"

\* C6: every call with steps has its own task, and every task, whatever the
\* others do, has completed exactly the steps before its own cursor, each
\* once, in the order of its own list and with the effect of its own step.
MacroTasksIndependent ==
    /\ Len(tasks) = ui.calls
    /\ \A t \in 1..Len(tasks) :
        LET task == tasks[t] IN
        /\ EndIndices(task) = [k \in 1..(task.i - 1) |-> k]
        /\ \A k \in 1..Len(task.log) :
            /\ task.log[k].op = StepPlan(task.steps[task.log[k].i]).op
            /\ task.log[k].arg = StepPlan(task.steps[task.log[k].i]).arg

\* Two tasks overlap: both are inside a step and both have completed one.
MacroTasksOverlapSeen ==
    /\ Len(tasks) >= 2
    /\ tasks[1].pc = "in_step" /\ tasks[1].i >= 2
    /\ tasks[2].pc = "in_step" /\ tasks[2].i >= 2
    /\ tasks[1].steps # tasks[2].steps

\* C7: a started task is never cancelled and runs to completion: again and
\* again every task started so far has run all the steps of its list, in
\* order, and has ended (tasks are never removed, so each one gets there).
MacroTaskRunsToCompletion ==
    []<>(\A t \in 1..Len(tasks) :
            /\ tasks[t].pc = "done"
            /\ EndIndices(tasks[t]) = [k \in 1..Len(tasks[t].steps) |-> k])

\* A task of four steps, two of them delays, has ended.
MacroLongTaskDoneSeen ==
    \E t \in 1..Len(tasks) :
        /\ tasks[t].pc = "done"
        /\ Len(tasks[t].steps) = 4
        /\ tasks[t].slept = 150

(***************************************************************************)
(* Properties of ActiveWindowMonitor (SpecMonitor and FairSpecMonitor)     *)
(***************************************************************************)
RECURSIVE Collapse(_, _)
\* seq without the entries that repeat the entry before them (last before
\* the first).
Collapse(seq, last) ==
    IF seq = <<>> THEN <<>>
    ELSE IF Head(seq) = last THEN Collapse(Tail(seq), last)
    ELSE <<Head(seq)>> \o Collapse(Tail(seq), Head(seq))

\* C8: a change event is emitted exactly when a poll reads a name that
\* differs from the last observed one: the events are the observed names
\* with the repetitions dropped, so one event per change of name and no two
\* consecutive events with the same name.
MonitorEmitsOnlyOnTransition ==
    /\ events = Collapse(obs, "")
    /\ \A k \in 1..(Len(events) - 1) : events[k] # events[k + 1]
    /\ mon.last_exe = (IF events = <<>> THEN "" ELSE events[Len(events)])

\* The polls read a.exe and then b.exe three times: two events, a.exe and b.exe.
MonitorSteadyStateSeen ==
    /\ obs = <<"a.exe", "b.exe", "b.exe", "b.exe">>
    /\ events = <<"a.exe", "b.exe">>

\* C9: a poll that fails emits nothing, leaves the last observed name as it
\* was and sends the thread on to its sleep; the loop is left only with the
\* running flag cleared.
MonitorSurvivesFailedPoll ==
    /\ [][(mon.pc = "poll" /\ mon'.polls = mon.polls + 1 /\ mon'.lastPoll \in PollFailures)
            => (events' = events /\ mon'.last_exe = mon.last_exe /\ mon'.pc = "sleep")]_vars
    /\ [](mon.pc = "exited" => ~mon.running)

\* After a failed poll the thread is polling again, the name read before the
\* failure still being the last observed one.
MonitorPollAfterFailureSeen ==
    /\ mon.pc = "poll"
    /\ mon.lastPoll \in PollFailures
    /\ mon.running
    /\ mon.last_exe = "a.exe"

\* C10: once stop() has cleared the flag, the thread leaves the loop, and
\* with the flag cleared and the thread at or past the loop condition there
\* is no further poll and no further event.
MonitorStopsAfterStop ==
    /\ (~mon.running) ~> (mon.pc \in {"exited", "notstarted"})
    /\ [][(~mon.running /\ mon.pc \in {"exited", "notstarted", "check"})
            => (mon'.polls = mon.polls /\ events' = events
                /\ mon'.pc \in {"exited", "notstarted", "check"})]_vars

\* stop() gave up waiting for a monitor that had polled, and the thread has
\* exited since.
MonitorExitedAfterStopSeen ==
    /\ mon.pc = "exited"
    /\ mon.polls >= 1
    /\ events # <<>>
    /\ monStop.last = "timeout"
    /\ monStop.pc = "idle"


(***************************************************************************)
(* Properties of InputDetector and MainWindow.keyPressEvent                *)
(* (checked under SpecHook, FairSpecHook and SpecDetector)                 *)
(***************************************************************************)
\* The hook threads that are alive
AliveHookThreads == {t \in 1..Len(hthreads) : Alive(hthreads[t])}

\* The alive hook threads that have assigned InputDetector._hook
HookFieldWriters ==
    {t \in 1..Len(hthreads) : hthreads[t].pc \in {"check", "getmsg", "unhook"}}

\* C11: a key press that was synthesized by software, and that the hook
\* procedure was called for, never clicks a panel button through
\* keyPressEvent, however the hook thread's recording of keys and the UI
\* thread's handling of queued key presses interleave.
InjectedKeyNeverClicks ==
    lastKey.key = "injected, seen by the hook" => lastKey.result # "click"

\* C12: while a hook is installed, last_was_injected is the injected flag of
\* the most recent key-down (WM_KEYDOWN or WM_SYSKEYDOWN, code >= 0) a hook
\* procedure was called for, false when there was none; key-up events and
\* events with a negative code leave it as it is.
LastInjectedIsLastKeyDownFlag ==
    oshooks # {} => det.last_injected = (lastDown = "injected")

KeyUpLeavesFlagSeen ==
    /\ oshooks # {}
    /\ hookCall.kind = "up"
    /\ lastDown = "injected"
    /\ det.last_injected

\* C13: the hook procedure only observes: for every event it hands the same
\* code and parameters to CallNextHookEx and returns what that call returns.
HookIsObserveOnly ==
    hookCall.kind # "none" => hookCall.forwardedSame /\ hookCall.returnedNext

HookForwardedInjectedKeyDownSeen ==
    /\ hookCall.kind = "down"
    /\ lastDown = "injected"
    /\ hookCall.forwardedSame
    /\ hookCall.returnedNext

\* C14: after stop() was called while a hook thread was alive (stop()
\* cleared _running, and the thread is the detector's _thread), that thread
\* eventually leaves its message loop and ends, and its hook is no longer
\* installed.
StoppedHookThreadEnds ==
    \A t \in 1..MaxHookThreads :
        (t <= Len(hthreads) /\ det.thread = t /\ ~det.running /\ Alive(hthreads[t]))
            ~> (t <= Len(hthreads) /\ ~Alive(hthreads[t]) /\ t \notin oshooks)

\* C15: after any sequence of start() and stop(), also when the join of a
\* stop() timed out, at most one hook thread is alive and at most one
\* keyboard hook is installed.
AtMostOneHookThreadAndHook ==
    /\ Cardinality(AliveHookThreads) <= 1
    /\ Cardinality(oshooks) <= 1

\* C16: once the installation of the hook has failed (the thread start()
\* started last ended without a hook, and no hook is installed),
\* last_was_injected is false.
FailedInstallReadsNotInjected ==
    (det.thread # 0 /\ hthreads[det.thread].pc = "failed" /\ oshooks = {})
        => ~det.last_injected

\* C19: each field of the detector has at most one thread writing it: at
\* most one alive thread has assigned _hook, and at most one thread's hook
\* procedure assigns _last_injected.
SingleWriterPerField ==
    /\ Cardinality(HookFieldWriters) <= 1
    /\ Cardinality(Serving) <= 1

(***************************************************************************)
(* Properties of GlobalHotkeyService (checked under SpecHotkey)            *)
(***************************************************************************)
\* The chords registered with the keyboard library
RegisteredChords == {c \in Chords : oskeys[c] > 0}

\* C17: in every reachable state at most one chord is registered, once; and
\* after update_hotkey(new) the chord registered before is no longer
\* registered (unless it is the new one), also when remove_hotkey failed and
\* the failure was swallowed.
AtMostOneChordRegistered ==
    /\ Cardinality(RegisteredChords) <= 1
    /\ \A c \in Chords : oskeys[c] <= 1
    /\ (ghCall.op = "update" /\ ghCall.prev # gh.hotkey) => oskeys[ghCall.prev] = 0

UpdateAfterFailedUnregisterSeen ==
    /\ ghCall.op = "update"
    /\ ghCall.swallowed
    /\ ghCall.prev # gh.hotkey
    /\ gh.registered
    /\ RegisteredChords = {gh.hotkey}

\* C18: start() on a service that is registered, and stop() on a service
\* that is not, make no call to the keyboard library and change nothing.
HotkeyStartStopIdempotent ==
    /\ (ghCall.op = "start" /\ ghCall.wasRegistered)
           => (ghCall.osCalls = 0 /\ ghCall.unchanged)
    /\ (ghCall.op = "stop" /\ ~ghCall.wasRegistered)
           => (ghCall.osCalls = 0 /\ ghCall.unchanged)

HotkeySecondStartSeen ==
    /\ ghCall.op = "start"
    /\ ghCall.wasRegistered
    /\ gh.registered
    /\ oskeys[gh.hotkey] = 1

(***************************************************************************)
(* Properties of the page bar (checked under SpecPages)                    *)
(***************************************************************************)
\* C20: deleting the only page changes nothing (the pages, the selection of
\* the bar and of the window, the saved configuration), so that a page list
\* that is not empty is not empty after an add, an edit or a delete.
DeleteLastPageIsNoOp ==
    /\ (pageOp.op = "delete" /\ pageOp.lenBefore = 1) => pageOp.unchanged
    /\ (pageOp.op \in {"add", "edit", "delete"} /\ pageOp.lenBefore > 0)
           => Len(pages) > 0

DeleteOfOnlyPageSeen ==
    /\ pageOp.op = "delete"
    /\ pageOp.lenBefore = 1
    /\ Len(pages) = 1
    /\ saved # pages


\* C21: after a delete made while there were two pages or more, the bar's
\* selection is an index of the shortened list: the new last index when it
\* pointed past the new end, the index it was otherwise; the window has the
\* same index and shows the page at that index.
DeleteKeepsSelectionValid ==
    (pageOp.op = "delete" /\ pageOp.lenBefore >= 2) =>
        /\ Len(pages) = pageOp.lenBefore - 1
        /\ bar \in 0..(Len(pages) - 1)
        /\ bar = IF pageOp.barBefore >= Len(pages)
                 THEN Len(pages) - 1 ELSE pageOp.barBefore
        /\ win = bar
        /\ shown = <<pages[win + 1]>>

DeleteClampedSelectionSeen ==
    /\ pageOp.op = "delete"
    /\ pageOp.lenBefore = 2
    /\ pageOp.barBefore = 1
    /\ bar = 0
    /\ win = 0

\* C22: a navigation whose page_id is the id of a page makes a page of that
\* id the current one; with no page_id, an empty one, one that no page has,
\* or with no main window attached, nothing changes.
HasPageOfId(id) == \E i \in 1..Len(pages) : pages[i].id = id

NavigateSelectsPageOfId ==
    /\ (pageOp.op = "navigate" /\ pageOp.arg # "" /\ HasPageOfId(pageOp.arg))
           => /\ win \in 0..(Len(pages) - 1)
              /\ pages[win + 1].id = pageOp.arg
              /\ bar = win
              /\ shown = <<pages[win + 1]>>
    /\ (pageOp.op = "navigate" /\ (pageOp.arg = "" \/ ~HasPageOfId(pageOp.arg)))
           => pageOp.unchanged
    /\ pageOp.op = "navigate, no window" => pageOp.unchanged

NavigateToOtherPageSeen ==
    /\ pageOp.op = "navigate"
    /\ pageOp.arg = "page_2"
    /\ win = 1
    /\ ~pageOp.unchanged

\* C27: no two pages have the same id, whatever loads, adds, edits and
\* deletes were made.
PageIdsUnique ==
    \A i, j \in 1..Len(pages) : pages[i].id = pages[j].id => i = j


(***************************************************************************)
(* Properties of the configuration model (checked under SpecModels)        *)
(***************************************************************************)
SameLetter(x, y) == x = y \/ {x, y} \in { {"a", "A"}, {"b", "B"} }

SameIgnoringCase(str, other) ==
    /\ Len(str) = Len(other)
    /\ \A i \in 1..Len(str) : SameLetter(str[i], other[i])

PageMaps(page, exe) ==
    \E k \in 1..Len(page.mapped_apps) : SameIgnoringCase(page.mapped_apps[k], exe)

\* C23: find_page_for_app(name) returns the first page, in the order of the
\* list, one of whose mapped applications is the name up to the case of
\* its letters, and none when no page has one.
FindPageIsFirstMatchIgnoringCase ==
    modelCall.op = "find_page_for_app" =>
        LET ps == modelCall.config.pages
            f  == modelCall.found
        IN  /\ f \in 0..Len(ps)
            /\ f # 0 => PageMaps(ps[f], modelCall.arg)
            /\ \A j \in 1..Len(ps) : PageMaps(ps[j], modelCall.arg) => (f # 0 /\ f <= j)

FindSecondPageByOtherCaseSeen ==
    /\ modelCall.op = "find_page_for_app"
    /\ modelCall.found = 2
    /\ \A k \in 1..Len(modelCall.config.pages[2].mapped_apps) :
           modelCall.config.pages[2].mapped_apps[k] # modelCall.arg

\* C24: a configuration written with to_dict and read with from_dict is the
\* configuration it was: version, settings, pages in their order, mapped
\* applications in their order, the position, action type and params of
\* every button.
ConfigRoundTrip ==
    modelCall.op = "round_trip" => modelCall.back = modelCall.config

PopulatedRoundTripSeen ==
    /\ modelCall.op = "round_trip"
    /\ modelCall.config.version = 2
    /\ modelCall.config.settings = CustomSettings
    /\ Len(modelCall.config.pages) = 2
    /\ modelCall.config.pages[2].buttons = <<DefaultButton, HotkeyButton>>
    /\ Len(modelCall.config.pages[2].mapped_apps) = 2
    /\ modelCall.back = modelCall.config

(***************************************************************************)
(* Properties of ConfigManager (checked under SpecManager)                 *)
(***************************************************************************)
ExpectedConfig(user, bundled) ==
    IF user.kind = "doc" THEN user.cfg
    ELSE IF bundled.kind = "doc" THEN bundled.cfg
    ELSE "builtin"

\* C25: load() never raises, whatever the user's file and the bundled
\* default hold and however the write after a fallback ends, and it returns
\* the user's configuration when that parses, else the bundled default when
\* that parses, else the built-in default.
LoadNeverFails ==
    mgr.op = "load" =>
        /\ mgr.pc # "raised"
        /\ mgr.pc = "idle" => mgr.config = ExpectedConfig(mgr.prev, fs.bundled)

\* C26: at every point during and after a save, a failure or a crash at any
\* step included, the user's file holds the complete document it held
\* before the save or the complete new document.
SaveIsAtomic ==
    mgr.op \in {"load", "save"} => fs.user \in {mgr.prev, Dump(mgr.config)}

(***************************************************************************)
(* Properties of the executors (checked under SpecExecutors)               *)
(***************************************************************************)
\* C28: LaunchApp.execute always returns; with a path it first spawns the
\* path directly, and opens the path through the OS exactly when that spawn
\* failed because the path was not found; a failed open and every other
\* failed spawn are logged; with an empty path nothing is started.
LaunchAppFallsBackOnNotFound ==
    execCall.op = "launch_app" =>
        LET path == Get(execCall.params, "path", "")
            calls == execCall.calls
            opens == {i \in 1..Len(calls) : calls[i].fn = "startfile"}
        IN  /\ execCall.outcome = "returned"
            /\ path = "" => (calls = <<>> /\ execCall.errors = 0)
            /\ path # "" => (calls # <<>> /\ calls[1].fn = "Popen"
                               /\ calls[1].cmd[1] = path)
            /\ opens = IF path # "" /\ execCall.os.popen = "FileNotFoundError"
                       THEN {2} ELSE {}
            /\ \A i \in opens : calls[i].cmd = <<path>>
            /\ Len(calls) <= 2
            /\ path # "" =>
                   execCall.errors =
                       IF \/ execCall.os.popen = "PermissionError"
                          \/ (execCall.os.popen = "FileNotFoundError"
                                 /\ execCall.os.startfile # "ok")
                       THEN 1 ELSE 0

LaunchFallbackFailureSeen ==
    /\ execCall.op = "launch_app"
    /\ execCall.os.popen = "FileNotFoundError"
    /\ execCall.os.startfile = "OSError"
    /\ Len(execCall.calls) = 2
    /\ execCall.errors = 1
    /\ execCall.outcome = "returned"

\* The display text expected of a macro of n steps
MacroTextOf(n) ==
    CASE n = 1 -> "Macro (1 steps)" [] n = 2 -> "Macro (2 steps)"
      [] n = 10 -> "Macro (10 steps)" [] n = 12 -> "Macro (12 steps)"

\* C30: the display text of a macro of N >= 1 steps is "Macro (N steps)";
\* a macro without steps has none; when the executor's get_display_text
\* raises, the registry returns none.
MacroDisplayTextCountsSteps ==
    execCall.op = "get_display_text" =>
        LET n == Len(Get(execCall.params, "steps", <<>>)) IN
        /\ execCall.outcome = "returned"
        /\ execCall.os.type = "macro" =>
               execCall.value = IF n = 0 THEN None ELSE MacroTextOf(n)
        /\ execCall.os.behaviour = "raise" => execCall.value = None

MacroOfTwelveStepsSeen ==
    /\ execCall.op = "get_display_text"
    /\ execCall.os.type = "macro"
    /\ execCall.value = "Macro (12 steps)"

(***************************************************************************)
(* Properties of ActionRegistry.register (checked under SpecRegistry)      *)
(***************************************************************************)
\* C29: the mapping holds, for every action type, the executor of the most
\* recent register call for it (a register changes no other type), and
\* execute(t) invokes that executor and no other.
RegisterIsLastWins ==
    /\ [](actions = lastReg)
    /\ [][(regCalls' = regCalls + 1 /\ regCall'.op = "execute")
              => regCall'.invoked = lastReg[regCall'.type]]_vars

ExecuteOfReRegisteredTypeSeen ==
    /\ regCall.op = "execute"
    /\ regCall.invoked = "ex2"
    /\ lastReg[regCall.type] = "ex2"
    /\ \E u \in ActionTypes : u # regCall.type /\ lastReg[u] = "ex1"


(***************************************************************************)
(* Further properties of ActiveWindowMonitor (checked under SpecMonitor)   *)
(***************************************************************************)
\* C31: a poll that finds the monitor's own process in the foreground emits
\* nothing and leaves _last_exe as it was; and a poll that reads again the
\* name read before the panel had the focus emits nothing.
OwnProcessPollKeepsLastExe ==
    /\ [][(mon'.polls = mon.polls + 1 /\ mon'.lastPoll = "own_pid")
              => (events' = events /\ mon'.last_exe = mon.last_exe)]_vars
    /\ [][(mon'.polls = mon.polls + 1 /\ mon.lastPoll = "own_pid" /\ obs # <<>>
              /\ obs' = Append(obs, obs[Len(obs)]))
              => events' = events]_vars

ReturnFromPanelSeen ==
    /\ mon.lastPoll = "own_pid"
    /\ mon.polls = 2
    /\ obs = <<"a.exe">>
    /\ events = <<"a.exe">>
    /\ mon.last_exe = "a.exe"

\* C35: once stop() has cleared the flag it stays cleared, and a thread that
\* is not inside a poll iteration never enters one: a run started after the
\* stop leaves the loop without polling or emitting.
StopIsTerminal ==
    [][~mon.running =>
          /\ ~mon'.running
          /\ mon.pc # "poll" => (mon'.pc # "poll" /\ events' = events
                                  /\ mon'.polls = mon.polls)]_vars

StartAfterStopSeen ==
    /\ ~mon.running
    /\ mon.pc = "check"
    /\ monStop.pc = "idle"
    /\ monStop.last = "finished"


(***************************************************************************)
(* Further properties of the executors (checked under SpecExecutors)       *)
(***************************************************************************)
\* C32: for the same params a macro step of type hotkey and the Hotkey
\* executor give the same chords to the keyboard: the keys once when they
\* are not empty, nothing when they are missing or empty; both return to
\* their caller when the key synthesis fails.
HotkeyStepEqualsExecutor ==
    execCall.op = "hotkey" =>
        LET keys == Get(execCall.params, "keys", "") IN
        /\ execCall.outcome = "returned"
        /\ execCall.value.outcome = "returned"
        /\ execCall.calls = IF keys = "" THEN <<>> ELSE <<keys>>
        /\ execCall.value.sent = execCall.calls

FailingHotkeySeen ==
    /\ execCall.op = "hotkey"
    /\ execCall.os.send = "raised"
    /\ execCall.calls = <<"bad">>
    /\ execCall.value.sent = <<"bad">>
    /\ execCall.outcome = "returned"


(***************************************************************************)
(* Further properties of the pages (checked under SpecPages)               *)
(***************************************************************************)
\* C33: after every page operation (load, select, navigate, add, edit,
\* delete, reload), when the page list is not empty, the index the page bar
\* marks is the index of the page the window shows.
BarFollowsWindow ==
    (pageOp.op # "none" /\ Len(pages) > 0) =>
        /\ bar = win
        /\ win \in 0..(Len(pages) - 1)

AddSelectsNewPageSeen ==
    /\ pageOp.op = "add"
    /\ pageOp.lenBefore = 1
    /\ Len(pages) = 2
    /\ bar = 1
    /\ win = 1

\* C34: a delete of a page that is not the one the window shows leaves a
\* page of the same id shown, whether the deleted page stood before or after
\* the shown one.
DeleteOfOtherPageKeepsShown ==
    [][(/\ pageOp'.op = "delete"
        /\ Len(pages) >= 2
        /\ Len(pages') = Len(pages) - 1
        /\ \E i \in 0..(Len(pages) - 1) : i # win /\ pages' = Pop(pages, i))
          => (shown' # <<>> /\ shown # <<>> /\ shown'[1].id = shown[1].id)]_vars


(***************************************************************************)
(* Further properties of the detector (checked under SpecHook)             *)
(***************************************************************************)
\* C36: a hook thread that ends because the hook could not be installed
\* leaves the detector's running flag as it was; while the flag is set no
\* start creates a thread, so the installation is not tried again; once stop
\* has cleared the flag, the start that sets it again creates a new thread.
FailedInstallLeavesRunning ==
    /\ [][\A t \in 1..Len(hthreads) :
             (hthreads[t].pc = "new" /\ hthreads'[t].pc = "failed")
                 => det'.running = det.running]_vars
    /\ [][det.running => Len(hthreads') = Len(hthreads)]_vars
    /\ [][(~det.running /\ det'.running)
             => (Len(hthreads') = Len(hthreads) + 1 /\ det'.thread = Len(hthreads')
                 /\ hthreads'[det'.thread].pc = "new")]_vars

RunningWithFailedThreadSeen ==
    /\ det.running
    /\ det.thread = 1
    /\ hthreads[1].pc = "failed"
    /\ oshooks = {}


(***************************************************************************)
(* Further properties of the hotkey service (checked under SpecHotkey)     *)
(***************************************************************************)
\* C37: update_hotkey on a service that is not registered makes one call to
\* the keyboard library, the registration of the new chord, and the service
\* is registered afterwards exactly when that registration succeeded; a
\* service that becomes registered has added its chord to the library.
UpdateRegistersWhenNotRegistered ==
    /\ []((ghCall.op = "update" /\ ~ghCall.wasRegistered) =>
             /\ ghCall.osCalls = 1
             /\ gh.registered = (gh.hotkey \notin InvalidChords))
    /\ [][(~gh.registered /\ gh'.registered) =>
             oskeys'[gh'.hotkey] = oskeys[gh'.hotkey] + 1]_vars

UpdateAfterFailedRegistrationSeen ==
    /\ ghCall.op = "update"
    /\ ~ghCall.wasRegistered
    /\ ghCall.prev = "bad"
    /\ gh.hotkey = "alt+f1"
    /\ gh.registered
    /\ oskeys["alt+f1"] = 1


(***************************************************************************)
(* Further properties of ConfigManager (checked under SpecManager)         *)
(***************************************************************************)
\* C38: load() calls save() exactly when it fell back (the user's file was
\* missing or did not parse); a user's file that parsed is the file after
\* the load, untouched; after a fallback whose save met no failure the
\* user's file, a malformed one included, holds the document of the
\* fallback configuration.
LoadWritesIffFellBack ==
    /\ []((mgr.op = "load" /\ Parse(mgr.prev).ok) =>
             (mgr.pc = "idle" /\ fs.user = mgr.prev /\ ~mgr.failed))
    /\ []((mgr.op = "load" /\ ~Parse(mgr.prev).ok /\ mgr.pc = "idle" /\ ~mgr.failed) =>
             (fs.user = Dump(mgr.config) /\ fs.tmp = NoFile
              /\ mgr.config = ExpectedConfig(mgr.prev, fs.bundled)))
    /\ [][(mgr.pc = "start" /\ mgr'.op = "load") =>
             (mgr'.pc = "mkdir") = ~Parse(fs.user).ok]_vars

MalformedFileOverwrittenSeen ==
    /\ mgr.op = "load"
    /\ mgr.prev = Garbage
    /\ mgr.pc = "idle"
    /\ ~mgr.failed
    /\ fs.user = Dump("bundled")


(***************************************************************************)
(* Properties of the button editor (checked under SpecModels)              *)
(***************************************************************************)
\* C39: the editor opened on a button and closed without an edit gives back
\* a ButtonConfig equal to the button, whatever the type of its action.
ButtonEditorRoundTrip ==
    modelCall.op = "edit_button" => modelCall.back = modelCall.config


(***************************************************************************)
(* Properties of PluginLoader (checked under SpecPlugins)                  *)
(***************************************************************************)
\* C40: when shutdown_all has returned, shutdown() was called exactly once
\* on every plugin whose initialize() completed in discover_and_load.
ShutdownCalls(id) == Cardinality({k \in 1..Len(plug.shutdowns) : plug.shutdowns[k] = id})

EveryInitializedPluginShutDownOnce ==
    plug.pc = "down" => \A id \in plug.initialized : ShutdownCalls(id) = 1

=============================================================================
